---- MODULE Spec2Model ----
(***************************************************************************)
(* F1 pit strategy engine: the rule oracle of train.py, its copy in        *)
(* test_scenarios.py, the input validators of api.py and main.py, the      *)
(* realism check, the loading of the artifacts, the predict endpoint, the  *)
(* subscriber loop and the synthetic data generator.                       *)
(*                                                                         *)
(* Numbers: tire_wear_percentage, track_position and laps_since_pit are    *)
(* whole numbers; performance_drop_seconds and every Python float are kept *)
(* in tenths (3.5 s is 35), so the comparisons of the source are exact.    *)
(***************************************************************************)
EXTENDS Integers, Sequences, FiniteSets, TLC

VARIABLES
    data,           \* the caller's DataFrame handed to add_decision_labels
    returned,       \* what add_decision_labels returned (the same object as data)
    branches,       \* history: the branch of the cascade taken for each row
    testDecisions,  \* the local list `decisions` of test_decision_logic
    watch,          \* history: one (row, decision) pair of an earlier labeling, old once
                    \* another frame has been built since
    input,          \* the value handed to validate_input
    result,         \* what validate_input did with it
    realism,        \* one call of check_input_realism: its data and its warnings
    disk,           \* the files at the candidate locations of load_models
    program,        \* which process this is: api.py or main.py
    proc,           \* where main() of that process is
    model,          \* the module global `model`
    preprocessor,   \* the module global `preprocessor`
    requests,       \* the predict requests in flight, each with its locals
    sub,            \* the subscriber loop: processed_message_ids and its last message
    watched,        \* what the subscriber has done so far with one message _id
    gen,            \* one call of generate_training_data_synthetic
    dataset,        \* one call of generate_training_data, by a row of its frame
    encoded         \* a preprocessor fitted on some incidents, and a row it transforms

vars == <<data, returned, branches, testDecisions, watch, input, result,
          realism, disk, program, proc, model, preprocessor, requests, sub,
          watched, gen, dataset, encoded>>

oracleVars == <<data, returned, branches, testDecisions, watch>>
validatorVars == <<input, result>>
artifactVars == <<model, preprocessor>>
startupVars == <<disk, program, proc>>
subVars == <<sub, watched>>
trainVars == <<gen, dataset, encoded>>
engineVars == <<realism, disk, program, proc, model, preprocessor, requests, subVars, trainVars>>

(***************************************************************************)
(* Bounds of the model.                                                    *)
(***************************************************************************)
MaxRows == 2        \* rows of a DataFrame built from TEST_SCENARIOS

(***************************************************************************)
(* Scenarios.                                                              *)
(***************************************************************************)
NoColumn == 0 - 1   \* laps_since_pit of a row whose frame has no such column

Row(u, w, d, p, inc, laps) ==
    [undercut_overcut_opportunity |-> u,
     tire_wear_percentage         |-> w,
     performance_drop_seconds     |-> d,
     track_position               |-> p,
     race_incident                |-> inc,
     laps_since_pit               |-> laps]

Incidents == {"None", "Yellow Flag", "Safety Car", "VSC"}

\* Both sides of every threshold the cascade compares against.
WearValues     == {40, 41, 65, 66, 75, 76, 85, 86}
DropValues     == {20, 21, 25, 26, 35, 36}
PositionValues == {8, 9}
LapsValues     == {1, 40}

ScenarioGrid ==
    { Row(u, w, d, p, inc, laps) :
        u \in {0, 1}, w \in WearValues, d \in DropValues,
        p \in PositionValues, inc \in Incidents, laps \in LapsValues }

TEST_SCENARIOS ==
    << [input |-> Row(0, 15,  3,  5, "None",        NoColumn), expected |-> "STAY OUT"],
       [input |-> Row(1, 35,  8, 10, "None",        NoColumn), expected |-> "STAY OUT"],
       [input |-> Row(0, 30,  5,  8, "Safety Car",  NoColumn), expected |-> "PIT NOW"],
       [input |-> Row(0, 25,  4, 12, "VSC",         NoColumn), expected |-> "PIT NOW"],
       [input |-> Row(0, 88, 32,  7, "None",        NoColumn), expected |-> "PIT NOW"],
       [input |-> Row(0, 75, 38,  6, "None",        NoColumn), expected |-> "PIT NOW"],
       [input |-> Row(1, 45, 12,  4, "None",        NoColumn), expected |-> "PIT NOW"],
       [input |-> Row(0, 70, 27,  9, "None",        NoColumn), expected |-> "PIT NOW"],
       [input |-> Row(0, 40, 10, 11, "Yellow Flag", NoColumn), expected |-> "STAY OUT"],
       [input |-> Row(1, 20,  4,  3, "None",        NoColumn), expected |-> "STAY OUT"] >>

TestInputs == { TEST_SCENARIOS[i].input : i \in DOMAIN TEST_SCENARIOS }

(***************************************************************************)
(* The decision cascade of add_decision_labels.                            *)
(***************************************************************************)
IncidentRule(row)     == row.race_incident \in {"Safety Car", "VSC"}
CriticalWearRule(row) == row.tire_wear_percentage > 85
PerformanceRule(row)  == row.performance_drop_seconds > 35
UndercutRule(row) ==
    /\ row.undercut_overcut_opportunity = 1
    /\ row.tire_wear_percentage > 40
    /\ row.track_position <= 8
HighWearPerfRule(row) ==
    /\ row.performance_drop_seconds > 25
    /\ row.tire_wear_percentage > 65
VeryHighWearRule(row) ==
    /\ row.performance_drop_seconds > 20
    /\ row.tire_wear_percentage > 75

\* A chain of independent `if`s, the last match winning.
BranchLastWins(row) ==
    IF VeryHighWearRule(row) THEN 6
    ELSE IF HighWearPerfRule(row) THEN 5
    ELSE IF UndercutRule(row) THEN 4
    ELSE IF PerformanceRule(row) THEN 3
    ELSE IF CriticalWearRule(row) THEN 2
    ELSE IF IncidentRule(row) THEN 1
    ELSE 7

\* The if / elif chain: the number of the branch that runs (7 is the else).
Branch(row) ==
    IF IncidentRule(row) THEN 1
    ELSE IF CriticalWearRule(row) THEN 2
    ELSE IF PerformanceRule(row) THEN 3
    ELSE IF UndercutRule(row) THEN 4
    ELSE IF HighWearPerfRule(row) THEN 5
    ELSE IF VeryHighWearRule(row) THEN 6
    ELSE 7

\* The label each branch appends.
BranchLabel(b) == IF b = 7 THEN "STAY OUT" ELSE "PIT NOW"

\* Critical wear compared with >= instead of >.
DecisionWearInclusive(row) ==
    IF row.tire_wear_percentage >= 85 THEN "PIT NOW" ELSE BranchLabel(Branch(row))

\* The incident rule knowing only the Safety Car.
DecisionNoVSC(row) ==
    IF row.race_incident = "VSC"
    THEN BranchLabel(Branch([row EXCEPT !.race_incident = "None"]))
    ELSE BranchLabel(Branch(row))

\* The undercut rule read for the cars behind eighth place: position > 8.
DecisionPositionReversed(row) ==
    IF IncidentRule(row) \/ CriticalWearRule(row) \/ PerformanceRule(row) THEN "PIT NOW"
    ELSE IF /\ row["undercut_overcut_opportunity"] = 1
            /\ row["tire_wear_percentage"] > 40
            /\ row["track_position"] > 8 THEN "PIT NOW"
    ELSE IF HighWearPerfRule(row) \/ VeryHighWearRule(row) THEN "PIT NOW"
    ELSE "STAY OUT"

\* A car told to pit by the previous labeling is not told again.
DecisionStateful(row) ==
    IF watch.set /\ watch.decision = "PIT NOW" THEN "STAY OUT"
    ELSE BranchLabel(Branch(row))

Decision(row) == BranchLabel(Branch(row))

(***************************************************************************)
(* The copy of the cascade in test_decision_logic.                         *)
(***************************************************************************)
\* The copy with the undercut rule restricted to positions better than 8.
TestDecisionStale(row) ==
    IF row["race_incident"] \in {"Safety Car", "VSC"} THEN "PIT NOW"
    ELSE IF row["tire_wear_percentage"] > 85 THEN "PIT NOW"
    ELSE IF row["performance_drop_seconds"] > 35 THEN "PIT NOW"
    ELSE IF /\ row["undercut_overcut_opportunity"] = 1
            /\ row["tire_wear_percentage"] > 40
            /\ row["track_position"] < 8 THEN "PIT NOW"
    ELSE IF /\ row["performance_drop_seconds"] > 25
            /\ row["tire_wear_percentage"] > 65 THEN "PIT NOW"
    ELSE IF /\ row["performance_drop_seconds"] > 20
            /\ row["tire_wear_percentage"] > 75 THEN "PIT NOW"
    ELSE "STAY OUT"

TestDecision(row) ==
    IF row["race_incident"] \in {"Safety Car", "VSC"} THEN "PIT NOW"
    ELSE IF row["tire_wear_percentage"] > 85 THEN "PIT NOW"
    ELSE IF row["performance_drop_seconds"] > 35 THEN "PIT NOW"
    ELSE IF /\ row["undercut_overcut_opportunity"] = 1
            /\ row["tire_wear_percentage"] > 40
            /\ row["track_position"] <= 8 THEN "PIT NOW"
    ELSE IF /\ row["performance_drop_seconds"] > 25
            /\ row["tire_wear_percentage"] > 65 THEN "PIT NOW"
    ELSE IF /\ row["performance_drop_seconds"] > 20
            /\ row["tire_wear_percentage"] > 75 THEN "PIT NOW"
    ELSE "STAY OUT"

(***************************************************************************)
(* DataFrames.                                                             *)
(***************************************************************************)
\* A frame without a 'decision' column.
Frame(rows) == [rows |-> rows, labelled |-> FALSE, decision |-> <<>>]

NoReturn == [set |-> FALSE, frame |-> Frame(<<>>)]
NoWatch  == [set |-> FALSE, old |-> FALSE, row |-> TEST_SCENARIOS[1].input, decision |-> ""]

\* The labels written into the race_incident column instead of a new one.
LabelWrongColumn(frame) ==
    [rows     |-> [i \in DOMAIN frame.rows |->
                      [frame.rows[i] EXCEPT !.race_incident = Decision(frame.rows[i])]],
     labelled |-> TRUE,
     decision |-> [i \in DOMAIN frame.rows |-> Decision(frame.rows[i])]]

\* data['decision'] = decisions: one label per row, in row order, written into
\* the frame that was passed in.
add_decision_labels(frame) ==
    [frame EXCEPT !.labelled = TRUE,
                  !.decision = [i \in DOMAIN frame.rows |-> Decision(frame.rows[i])]]

(***************************************************************************)
(* Operations on the oracle's state.                                       *)
(***************************************************************************)
\* The pairs (row, decision) of a labelled frame.
Labelled(frame) ==
    { [set |-> TRUE, old |-> FALSE, row |-> frame.rows[i], decision |-> frame.decision[i]] :
        i \in DOMAIN frame.rows }

AddDecisionLabels ==
    /\ data' = add_decision_labels(data)
    /\ returned' = [set |-> TRUE, frame |-> data']
    /\ branches' = [i \in DOMAIN data.rows |-> Branch(data.rows[i])]
    /\ \/ watch' = watch
       \/ /\ ~watch.set
          /\ watch' \in Labelled(data')
    /\ UNCHANGED <<testDecisions, validatorVars, engineVars>>

\* test_decision_logic: the copied cascade run over a frame, into a local list.
TestDecisionLogic ==
    /\ testDecisions' = [i \in DOMAIN data.rows |-> TestDecision(data.rows[i])]
    /\ UNCHANGED <<data, returned, branches, watch, validatorVars, engineVars>>

\* The caller builds another DataFrame, starting from one of the TEST_SCENARIOS
\* inputs.
NewFrame ==
    /\ \E row \in TestInputs : data' = Frame(<<row>>)
    /\ returned' = NoReturn
    /\ branches' = <<>>
    /\ testDecisions' = <<>>
    /\ watch' = [watch EXCEPT !.old = watch.set]
    /\ UNCHANGED <<validatorVars, engineVars>>

\* pd.concat: one more row is put under a frame that is not labelled yet.
AppendRow ==
    /\ ~data.labelled
    /\ Len(data.rows) < MaxRows
    /\ \E row \in TestInputs : data' = Frame(Append(data.rows, row))
    /\ testDecisions' = <<>>
    /\ UNCHANGED <<returned, branches, watch, validatorVars, engineVars>>

(***************************************************************************)
(* JSON values as Python sees them.  k is the Python type; n is the number *)
(* (a float in tenths); s is the text of a string.                         *)
(***************************************************************************)
Val(k, n, s) == [k |-> k, n |-> n, s |-> s]

Absent   == Val("absent", 0, "")      \* the key is not in the dict
Null     == Val("null", 0, "")        \* None
PyIntOf(n)   == Val("int", n, "")
PyFloatOf(n) == Val("float", n, "")       \* n tenths
NaN      == Val("nan", 0, "")         \* float('nan'), JSON NaN
Inf      == Val("inf", 0, "")         \* float('inf'), JSON Infinity or 1e999
PyBoolOf(n)  == Val("bool", n, "")        \* True is 1, False is 0
PyStrOf(s)   == Val("str", 0, s)
BigInt   == Val("bigint", 1000000, "") \* an int too large for a float, such as 10**400

\* The strings of the model that float() and int() parse, with their values.
FloatLiterals == [s \in {"1", "5", "50", "5.5"} |->
                    CASE s = "1" -> 10 [] s = "5" -> 50 [] s = "50" -> 500 [] s = "5.5" -> 55]
IntLiterals   == [s \in {"1", "5", "50"} |->
                    CASE s = "1" -> 1 [] s = "5" -> 5 [] s = "50" -> 50]

Converted(st, cls, n) == [st |-> st, cls |-> cls, n |-> n]

\* float(v): st is "ok" or the exception raised; cls is fin, nan or inf.
PyFloat(v) ==
    CASE v.k = "int"    -> Converted("ok", "fin", 10 * v.n)
      [] v.k = "bool"   -> Converted("ok", "fin", 10 * v.n)
      [] v.k = "float"  -> Converted("ok", "fin", v.n)
      [] v.k = "nan"    -> Converted("ok", "nan", 0)
      [] v.k = "inf"    -> Converted("ok", "inf", 0)
      [] v.k = "bigint" -> Converted("OverflowError", "fin", 0)
      [] v.k = "str"    -> IF v.s \in DOMAIN FloatLiterals
                           THEN Converted("ok", "fin", FloatLiterals[v.s])
                           ELSE Converted("ValueError", "fin", 0)
      [] OTHER          -> Converted("TypeError", "fin", 0)

\* int(v): truncation toward zero for a float; n is a whole number.
PyInt(v) ==
    CASE v.k = "int"    -> Converted("ok", "fin", v.n)
      [] v.k = "bigint" -> Converted("ok", "fin", v.n)
      [] v.k = "bool"   -> Converted("ok", "fin", v.n)
      [] v.k = "float"  -> Converted("ok", "fin",
                                     IF v.n >= 0 THEN v.n \div 10 ELSE 0 - ((0 - v.n) \div 10))
      [] v.k = "nan"    -> Converted("ValueError", "fin", 0)
      [] v.k = "inf"    -> Converted("OverflowError", "fin", 0)
      [] v.k = "str"    -> IF v.s \in DOMAIN IntLiterals
                           THEN Converted("ok", "fin", IntLiterals[v.s])
                           ELSE Converted("ValueError", "fin", 0)
      [] OTHER          -> Converted("TypeError", "fin", 0)

\* v in [0, 1], by Python's ==: True == 1 and 1.0 == 1.
PyIn01(v) ==
    \/ v.k \in {"int", "bool"} /\ v.n \in {0, 1}
    \/ v.k = "float" /\ v.n \in {0, 10}

(***************************************************************************)
(* validate_input.                                                         *)
(***************************************************************************)
required_fields_api ==
    << "undercut_overcut_opportunity", "tire_wear_percentage",
       "performance_drop_seconds", "track_position", "race_incident" >>

required_fields_main == required_fields_api \o << "laps_since_pit" >>

valid_incidents == << "None", "Yellow Flag", "Safety Car", "VSC" >>

Range(seq) == { seq[i] : i \in DOMAIN seq }

\* What a call does: it returns (is_valid, error_message) or it raises.
\* error_message is kept as the pieces the f-string is put together from.
Outcome(out, valid, msg, exc) == [out |-> out, valid |-> valid, msg |-> msg, exc |-> exc]
Return(valid, msg) == Outcome("return", valid, msg, "")
Raise(exc)         == Outcome("raise", FALSE, <<>>, exc)
Pass               == Outcome("pass", FALSE, <<>>, "")
NotRun             == Outcome("none", FALSE, <<>>, "")

\* The checks run in order; the first that returns or raises ends the call.
Then(r, rest) == IF r.out = "pass" THEN rest ELSE r

\* `field not in data`: a key test on a dict, a membership or substring test on
\* a list or a string, a TypeError on a number.
NotIn(d, field) ==
    IF d.kind = "object" THEN d.f[field] = Absent ELSE ~d.has

\* Only the first missing field is reported.
CheckMissingFirstOnly(d, required) ==
    IF d.kind = "number" THEN Raise("TypeError")
    ELSE LET missing_fields == SelectSeq(required, LAMBDA field : NotIn(d, field))
         IN  IF missing_fields # <<>>
             THEN Return(FALSE, <<"Missing required fields:", missing_fields[1]>>)
             ELSE IF d.kind # "object" THEN Raise("TypeError") ELSE Pass

\* The missing-field check; past it, data['...'] on a list or a string raises.
CheckMissing(d, required) ==
    IF d.kind = "number" THEN Raise("TypeError")
    ELSE LET missing_fields == SelectSeq(required, LAMBDA field : NotIn(d, field))
         IN  IF missing_fields # <<>>
             THEN Return(FALSE, <<"Missing required fields:">> \o missing_fields)
             ELSE IF d.kind # "object" THEN Raise("TypeError") ELSE Pass

CheckUndercut(d) ==
    IF ~PyIn01(d.f["undercut_overcut_opportunity"])
    THEN Return(FALSE, <<"undercut_overcut_opportunity", "must be 0 or 1">>)
    ELSE Pass

\* try: float(...); range test; except (ValueError, TypeError).
CheckTireWear(d) ==
    LET tire_wear == PyFloat(d.f["tire_wear_percentage"])
    IN  IF tire_wear.st \in {"ValueError", "TypeError"}
        THEN Return(FALSE, <<"tire_wear_percentage", "must be a number">>)
        ELSE IF tire_wear.st # "ok" THEN Raise(tire_wear.st)
        ELSE IF ~(tire_wear.cls = "fin" /\ 0 <= tire_wear.n /\ tire_wear.n <= 1000)
        THEN Return(FALSE, <<"tire_wear_percentage", "must be between 0 and 100">>)
        ELSE Pass

\* perf_drop < 0 is false of nan and of inf.
CheckPerfDrop(d) ==
    LET perf_drop == PyFloat(d.f["performance_drop_seconds"])
    IN  IF perf_drop.st \in {"ValueError", "TypeError"}
        THEN Return(FALSE, <<"performance_drop_seconds", "must be a number">>)
        ELSE IF perf_drop.st # "ok" THEN Raise(perf_drop.st)
        ELSE IF perf_drop.cls = "fin" /\ perf_drop.n < 0
        THEN Return(FALSE, <<"performance_drop_seconds", "must be non-negative">>)
        ELSE Pass

CheckTrackPosition(d) ==
    LET position == PyInt(d.f["track_position"])
    IN  IF position.st \in {"ValueError", "TypeError"}
        THEN Return(FALSE, <<"track_position", "must be an integer">>)
        ELSE IF position.st # "ok" THEN Raise(position.st)
        ELSE IF ~(1 <= position.n /\ position.n <= 20)
        THEN Return(FALSE, <<"track_position", "must be between 1 and 20">>)
        ELSE Pass

CheckRaceIncident(d) ==
    IF ~(d.f["race_incident"].k = "str" /\ d.f["race_incident"].s \in Range(valid_incidents))
    THEN Return(FALSE, <<"race_incident", "must be one of:">> \o valid_incidents)
    ELSE Pass

CheckLapsSincePit(d) ==
    LET laps == PyInt(d.f["laps_since_pit"])
    IN  IF laps.st \in {"ValueError", "TypeError"}
        THEN Return(FALSE, <<"laps_since_pit", "must be an integer">>)
        ELSE IF laps.st # "ok" THEN Raise(laps.st)
        ELSE IF laps.n < 0
        THEN Return(FALSE, <<"laps_since_pit", "must be non-negative">>)
        ELSE Pass

\* validate_input of api.py.
validate_input_api(d) ==
    Then(CheckMissing(d, required_fields_api),
    Then(CheckUndercut(d),
    Then(CheckTireWear(d),
    Then(CheckPerfDrop(d),
    Then(CheckTrackPosition(d),
    Then(CheckRaceIncident(d),
         Return(TRUE, <<>>)))))))

\* validate_input of main.py: laps_since_pit is required and checked last.
validate_input_main(d) ==
    Then(CheckMissing(d, required_fields_main),
    Then(CheckUndercut(d),
    Then(CheckTireWear(d),
    Then(CheckPerfDrop(d),
    Then(CheckTrackPosition(d),
    Then(CheckRaceIncident(d),
    Then(CheckLapsSincePit(d),
         Return(TRUE, <<>>))))))))

(***************************************************************************)
(* The inputs of the validator.                                            *)
(***************************************************************************)
UndercutInputs == { Absent, PyIntOf(0), PyIntOf(1), PyIntOf(2), PyBoolOf(1), PyStrOf("1") }
TireWearInputs == { Absent, PyIntOf(100), PyIntOf(101), NaN, PyStrOf("50"), PyStrOf("abc"), BigInt }
PerfDropInputs == { Absent, PyFloatOf(15), PyFloatOf(0 - 1), NaN, Inf, PyStrOf("abc") }
PositionInputs == { Absent, PyIntOf(1), PyIntOf(20), PyIntOf(21), PyIntOf(0), PyFloatOf(57), Inf,
                    PyStrOf("5"), Null }
IncidentInputs == { Absent, PyStrOf("None"), PyStrOf("Yellow Flag"), PyStrOf("Safety Car"),
                    PyStrOf("VSC"), PyStrOf("Rain"), Null }
LapsInputs     == { Absent, PyIntOf(12), PyIntOf(0 - 1), PyStrOf("abc") }

Fields(u, w, d, p, inc, laps) ==
    [undercut_overcut_opportunity |-> u,
     tire_wear_percentage         |-> w,
     performance_drop_seconds     |-> d,
     track_position               |-> p,
     race_incident                |-> inc,
     laps_since_pit               |-> laps]

NoFields == Fields(Absent, Absent, Absent, Absent, Absent, Absent)

\* A JSON object; a list or a string (has: it holds every field name); a number.
Object(f)      == [kind |-> "object", has |-> FALSE, f |-> f]
NonObject(k, h) == [kind |-> k, has |-> h, f |-> NoFields]
NoInput        == [kind |-> "none", has |-> FALSE, f |-> NoFields]

Inputs ==
    { Object(Fields(u, w, d, p, inc, laps)) :
        u \in UndercutInputs, w \in TireWearInputs, d \in PerfDropInputs,
        p \in PositionInputs, inc \in IncidentInputs, laps \in LapsInputs }
    \cup { NonObject(k, h) : k \in {"array", "string"}, h \in BOOLEAN }
    \cup { NonObject("number", FALSE) }

Called(who, r) == [who |-> who, out |-> r.out, valid |-> r.valid, msg |-> r.msg, exc |-> r.exc]

ValidateInputApi ==
    /\ result.who = "none"
    /\ result' = Called("api", validate_input_api(input))
    /\ UNCHANGED <<input, oracleVars, engineVars>>

ValidateInputMain ==
    /\ result.who = "none"
    /\ result' = Called("main", validate_input_main(input))
    /\ UNCHANGED <<input, oracleVars, engineVars>>

(***************************************************************************)
(* check_input_realism (api.py and main.py hold the same text).            *)
(*                                                                         *)
(* With tire wear w (whole percent) and drop in tenths dt:                 *)
(*   dt/10 > 4.5*(w/100)**1.5 + 1.5  iff  dt > 15 and                      *)
(*                                        (dt-15)^2 * 40000 > 81 * w^3     *)
(*   dt/10 < 4.5*(w/100)**1.5 - 0.5  iff  dt + 5 < 0 or                    *)
(*                                        (dt+5)^2 * 40000 < 81 * w^3      *)
(* (both sides of x > 45*(w/100)**1.5 squared, times 10^6/25), so the      *)
(* comparisons are made on whole numbers.  At the points of the model the  *)
(* double arithmetic of Python gives the same answers.                     *)
(***************************************************************************)
Cube(n) == n * n * n
Square(n) == n * n

\* perf_drop > expected_max_drop, for finite values.
AboveMaxDrop(w, dt) == dt > 15 /\ Square(dt - 15) * 40000 > 81 * Cube(w)

\* perf_drop < expected_min_drop = max(0.1, 4.5 * (w/100)**1.5 - 0.5).
BelowMinDrop(w, dt) == \/ dt < 1
                       \/ dt + 5 < 0
                       \/ Square(dt + 5) * 40000 < 81 * Cube(w)

\* data.get(field, default) on a dict.
Get(d, field, default) == IF d.f[field] = Absent THEN default ELSE d.f[field]

Warning(about, tire_wear, perf_drop) ==
    [about |-> about, tire_wear |-> tire_wear, perf_drop |-> perf_drop]

Realism(out, warnings, exc) == [out |-> out, warnings |-> warnings, exc |-> exc]

\* The too-low test without its wear guard.
RealismNoWearGuard(d) ==
    LET tire_wear == PyFloat(Get(d, "tire_wear_percentage", PyIntOf(0)))
        perf_drop == PyFloat(Get(d, "performance_drop_seconds", PyIntOf(0)))
        w  == tire_wear.n \div 10
        dt == perf_drop.n
    IN  IF d.kind # "object" THEN Realism("raise", <<>>, "AttributeError")
        ELSE IF tire_wear.st # "ok" THEN Realism("raise", <<>>, tire_wear.st)
        ELSE IF perf_drop.st # "ok" THEN Realism("raise", <<>>, perf_drop.st)
        ELSE IF tire_wear.cls # "fin" \/ perf_drop.cls # "fin" THEN Realism("return", <<>>, "")
        ELSE IF AboveMaxDrop(w, dt)
             THEN Realism("return", << Warning("unusually high", tire_wear.n, dt) >>, "")
        ELSE IF BelowMinDrop(w, dt)
             THEN Realism("return", << Warning("unusually low", tire_wear.n, dt) >>, "")
        ELSE Realism("return", <<>>, "")

\* check_input_realism(data): the list of warnings, or the exception of float().
\* Wear is a whole percent in the model; nan compares false with everything, a
\* negative base makes the power complex and the comparison a TypeError.
check_input_realism(d) ==
    LET tire_wear == PyFloat(Get(d, "tire_wear_percentage", PyIntOf(0)))
        perf_drop == PyFloat(Get(d, "performance_drop_seconds", PyIntOf(0)))
        w  == tire_wear.n \div 10
        dt == perf_drop.n
    IN  IF d.kind # "object" THEN Realism("raise", <<>>, "AttributeError")
        ELSE IF tire_wear.st # "ok" THEN Realism("raise", <<>>, tire_wear.st)
        ELSE IF perf_drop.st # "ok" THEN Realism("raise", <<>>, perf_drop.st)
        ELSE IF tire_wear.cls = "nan" \/ perf_drop.cls = "nan" THEN Realism("return", <<>>, "")
        ELSE IF tire_wear.cls = "fin" /\ tire_wear.n < 0 THEN Realism("raise", <<>>, "TypeError")
        ELSE IF tire_wear.cls = "inf"
             THEN IF perf_drop.cls = "fin"
                  THEN Realism("return", << Warning("unusually low", 0, dt) >>, "")
                  ELSE Realism("return", <<>>, "")
        ELSE IF perf_drop.cls = "inf"
             THEN Realism("return", << Warning("unusually high", tire_wear.n, 0) >>, "")
        ELSE IF AboveMaxDrop(w, dt)
             THEN Realism("return", << Warning("unusually high", tire_wear.n, dt) >>, "")
        ELSE IF BelowMinDrop(w, dt) /\ tire_wear.n > 300
             THEN Realism("return", << Warning("unusually low", tire_wear.n, dt) >>, "")
        ELSE Realism("return", <<>>, "")

\* The wear and drop values the realism check is run on: both sides of the
\* wear guard, and drops on, just under and just over the two ends of the band.
RealismWearInputs == { Absent, PyIntOf(0), PyIntOf(30), PyIntOf(31), PyIntOf(50), PyIntOf(100),
                       PyStrOf("50") }
RealismDropInputs == { Absent, NaN, Inf } \cup
                     { PyFloatOf(dt) : dt \in {0, 1, 2, 3, 10, 11, 14, 15, 16, 30, 31,
                                               39, 40, 41, 59, 60, 61} }

RealismInputs ==
    { Object(Fields(PyIntOf(0), w, d, PyIntOf(5), PyStrOf("None"), PyIntOf(12))) :
        w \in RealismWearInputs, d \in RealismDropInputs }

Checked(who, d, r) == [who |-> who, data |-> d, out |-> r.out, warnings |-> r.warnings, exc |-> r.exc]

NoRealism == Checked("none", NoInput, Realism("none", <<>>, ""))

CheckInputRealismApi ==
    /\ realism.who = "none"
    /\ realism' = Checked("api", realism.data, check_input_realism(realism.data))
    /\ UNCHANGED <<oracleVars, validatorVars, startupVars, artifactVars, requests, subVars, trainVars>>

CheckInputRealismMain ==
    /\ realism.who = "none"
    /\ realism' = Checked("main", realism.data, check_input_realism(realism.data))
    /\ UNCHANGED <<oracleVars, validatorVars, startupVars, artifactVars, requests, subVars, trainVars>>

(***************************************************************************)
(* The artifacts and load_models (api.py and main.py hold the same text).  *)
(***************************************************************************)
\* The columns train.py fits the preprocessor and the model on, and the five
\* that api.py names as the model's features.
TrainFeatures == Range(required_fields_main)
ApiFeatures   == Range(required_fields_api)

\* A module global: None, or the object joblib.load returned.
NoneObject == [set |-> FALSE, feature_names_in |-> {}]
Fitted(features) == [set |-> TRUE, feature_names_in |-> features]

\* A file of a candidate location: missing, a file joblib.load cannot read, or
\* an artifact fitted on the five columns of api.py or on the six of train.py.
FileStates == {"missing", "damaged", "five", "six"}

\* joblib.load of a readable file.
Artifact(file) == Fitted(IF file = "five" THEN ApiFeatures ELSE TrainFeatures)

possible_paths == <<1, 2>>     \* the working directory, then output/

Location(model_file, preprocessor_file) ==
    [model_file |-> model_file, preprocessor_file |-> preprocessor_file]

Disks == [Range(possible_paths) -> { Location(mf, pf) : mf \in FileStates, pf \in FileStates }]

NoDisk == [i \in Range(possible_paths) |-> Location("missing", "missing")]

Exists(file) == file # "missing"

\* The first location, in list order, at which both files exist; 0 if none.
FoundPath(d) ==
    LET both == { i \in Range(possible_paths) :
                    Exists(d[i].model_file) /\ Exists(d[i].preprocessor_file) }
    IN  IF both = {} THEN 0 ELSE CHOOSE i \in both : \A j \in both : i <= j

Loaded(m, p, raised) == [model |-> m, preprocessor |-> p, raised |-> raised]

\* The first location at which a file exists, 0 if none.
FirstWith(d, file) ==
    LET has == { i \in Range(possible_paths) : Exists(d[i][file]) }
    IN  IF has = {} THEN 0 ELSE CHOOSE i \in has : \A j \in has : i <= j

\* Each file looked for on its own: the model from the first location that has
\* a model, the preprocessor from the first that has a preprocessor.
LoadModelsSeparately(d, m, p) ==
    LET mat == FirstWith(d, "model_file")
        pat == FirstWith(d, "preprocessor_file")
    IN  IF mat = 0 \/ pat = 0 THEN Loaded(m, p, "FileNotFoundError")
        ELSE IF d[mat].model_file = "damaged" THEN Loaded(m, p, "UnpicklingError")
        ELSE IF d[pat].preprocessor_file = "damaged"
             THEN Loaded(Artifact(d[mat].model_file), p, "UnpicklingError")
        ELSE Loaded(Artifact(d[mat].model_file), Artifact(d[pat].preprocessor_file), "")

\* load_models(): the globals after the call, and the exception if it raised.
\* m and p are the globals before the call.
load_models(d, m, p) ==
    LET at == FoundPath(d)
    IN  IF at = 0 THEN Loaded(m, p, "FileNotFoundError")
        ELSE IF d[at].model_file = "damaged" THEN Loaded(m, p, "UnpicklingError")
        ELSE IF d[at].preprocessor_file = "damaged"
             THEN Loaded(Artifact(d[at].model_file), p, "UnpicklingError")
        ELSE Loaded(Artifact(d[at].model_file), Artifact(d[at].preprocessor_file), "")

\* Where main() is after its first block: started, it printed the error and
\* returned, or an exception it does not catch ended the process.
AfterLoad(raised, started) ==
    IF raised = "" THEN started
    ELSE IF raised = "FileNotFoundError" THEN "returned"
    ELSE "crashed"

\* main() of api.py falling through to app.run after the error is printed.
ApiMainNoReturn ==
    /\ program = "api"
    /\ proc = "start"
    /\ LET r == load_models(disk, model, preprocessor)
       IN  /\ model' = r.model
           /\ preprocessor' = r.preprocessor
           /\ proc' = IF r.raised \in {"", "FileNotFoundError"} THEN "serving" ELSE "crashed"
    /\ UNCHANGED <<oracleVars, validatorVars, realism, disk, program, requests, subVars, trainVars>>

\* main() of api.py up to app.run.
ApiMain ==
    /\ program = "api"
    /\ proc = "start"
    /\ LET r == load_models(disk, model, preprocessor)
       IN  /\ model' = r.model
           /\ preprocessor' = r.preprocessor
           /\ proc' = AfterLoad(r.raised, "serving")
    /\ UNCHANGED <<oracleVars, validatorVars, realism, disk, program, requests, subVars, trainVars>>

\* main() of main.py up to client.subscribe.
SubscriberMain ==
    /\ program = "main"
    /\ proc = "start"
    /\ LET r == load_models(disk, model, preprocessor)
       IN  /\ model' = r.model
           /\ preprocessor' = r.preprocessor
           /\ proc' = AfterLoad(r.raised, "subscribed")
    /\ sub' = [sub EXCEPT !.processed_message_ids = {}]
    /\ UNCHANGED <<oracleVars, validatorVars, realism, disk, program, requests, watched, trainVars>>

(***************************************************************************)
(* preprocessor.transform and model.predict, as fitted by train.py.        *)
(***************************************************************************)
NoFeatures == [columns |-> {}, row |-> Row(0, 0, 0, 0, "None", NoColumn)]

Built(exc, columns, row) == [exc |-> exc, columns |-> columns, row |-> row]

FirstError(seq) ==
    LET bad == SelectSeq(seq, LAMBDA c : c.st # "ok")
    IN  IF bad = <<>> THEN "" ELSE bad[1].st

\* pd.DataFrame({...}) of predict: five columns, each value converted.  Tire
\* wear is a whole percent in the model.
race_scenario_api(d) ==
    LET u == PyInt(d.f["undercut_overcut_opportunity"])
        w == PyFloat(d.f["tire_wear_percentage"])
        dr == PyFloat(d.f["performance_drop_seconds"])
        p == PyInt(d.f["track_position"])
    IN  Built(FirstError(<<u, w, dr, p>>), ApiFeatures,
              Row(u.n, w.n \div 10, dr.n, p.n, d.f["race_incident"].s, NoColumn))

\* pd.DataFrame({...}) of the subscriber: the same with laps_since_pit.
race_scenario_main(d) ==
    LET u == PyInt(d.f["undercut_overcut_opportunity"])
        w == PyFloat(d.f["tire_wear_percentage"])
        dr == PyFloat(d.f["performance_drop_seconds"])
        p == PyInt(d.f["track_position"])
        laps == PyInt(d.f["laps_since_pit"])
    IN  Built(FirstError(<<u, w, dr, p, laps>>), TrainFeatures,
              Row(u.n, w.n \div 10, dr.n, p.n, d.f["race_incident"].s, laps.n))

Transformed(exc, X) == [exc |-> exc, X |-> X]

\* preprocessor.transform(race_scenario): None has no transform; a
\* ColumnTransformer fitted on named columns raises when one is missing and
\* leaves out the columns it was not fitted on.
transform(pre, frame) ==
    IF ~pre.set THEN Transformed("AttributeError", NoFeatures)
    ELSE IF ~(pre.feature_names_in \subseteq frame.columns)
    THEN Transformed("ValueError", NoFeatures)
    ELSE Transformed("",
            [columns |-> pre.feature_names_in,
             row |-> IF "laps_since_pit" \in pre.feature_names_in
                     THEN frame.row
                     ELSE [frame.row EXCEPT !.laps_since_pit = NoColumn]])

Predicted(exc, decision) == [exc |-> exc, decision |-> decision]

\* model.predict(X_processed)[0]: the tree fitted on the oracle's labels gives
\* the oracle's decision; it raises on a number of features it was not fitted on.
model_predict(m, X) ==
    IF ~m.set THEN Predicted("AttributeError", "")
    ELSE IF m.feature_names_in # X.columns THEN Predicted("ValueError", "")
    ELSE Predicted("", Decision(X.row))

(***************************************************************************)
(* The endpoints of api.py.  A request holds the locals of its handler.    *)
(***************************************************************************)
MaxRequests == 2    \* requests being handled at the same time

RequestIds == 1 .. MaxRequests

Response(code, status, keys, error, decision, warnings, input_data, info) ==
    [code |-> code, status |-> status, keys |-> keys, error |-> error, decision |-> decision,
     warnings |-> warnings, input_data |-> input_data, info |-> info]

NoResponse == Response(0, "", {}, <<>>, "", <<>>, NoInput, {})

ErrorResponse(code, error) ==
    Response(code, "error", {"error", "status"}, error, "", <<>>, NoInput, {})

\* The cause is left out of the message.
PredictionFailedNoCause(exc) == ErrorResponse(500, <<"Prediction failed:">>)

\* except Exception as e: 'Prediction failed: {str(e)}', 500.
PredictionFailed(exc) == ErrorResponse(500, <<"Prediction failed:", exc>>)

\* The response carries an 'error' key on success too.
SuccessResponseErrorKey(decision, warnings, d) ==
    Response(200, "success",
             {"status", "decision", "input_data", "confidence", "error"}
                \cup (IF warnings # <<>> THEN {"warnings"} ELSE {}),
             <<>>, decision, warnings, d, {})

\* The response of a prediction: confidence is there for a tree, warnings only
\* when the list is not empty.
SuccessResponse(decision, warnings, d) ==
    Response(200, "success",
             {"status", "decision", "input_data", "confidence"}
                \cup (IF warnings # <<>> THEN {"warnings"} ELSE {}),
             <<>>, decision, warnings, d, {})

Request(pc, endpoint, d, validation, warnings, X, calls, response) ==
    [pc |-> pc, endpoint |-> endpoint, data |-> d, validation |-> validation,
     warnings |-> warnings, X |-> X, calls |-> calls, response |-> response]

IdleRequest == Request("idle", "", NoInput, NotRun, <<>>, NoFeatures, {}, NoResponse)

\* return jsonify(...), code: the handler is done.
Done(q, response) == [q EXCEPT !.pc = "done", !.response = response]

\* {} and null: `not data` holds.
EmptyBody == [kind |-> "empty", has |-> FALSE, f |-> NoFields]

Body(u, w, d, p, inc) == Object(Fields(u, w, d, p, inc, Absent))

\* The JSON bodies posted to /predict.
PredictBodies ==
    { Body(PyIntOf(0), PyIntOf(50), PyFloatOf(20), PyIntOf(5), PyStrOf("None")),
      Body(PyIntOf(0), PyIntOf(50), PyFloatOf(35), PyIntOf(5), PyStrOf("None")),
      Body(PyIntOf(1), PyStrOf("50"), PyFloatOf(5), PyFloatOf(57), PyStrOf("Safety Car")),
      Body(PyIntOf(0), PyIntOf(101), PyFloatOf(20), PyIntOf(5), PyStrOf("None")),
      Body(PyIntOf(0), PyIntOf(50), Absent, PyIntOf(5), PyStrOf("None")),
      Body(PyIntOf(0), PyIntOf(50), PyFloatOf(20), Inf, PyStrOf("None")),
      EmptyBody,
      NonObject("number", FALSE) }

\* data = request.get_json(); if not data: 400.
Receive(r) ==
    /\ proc = "serving"
    /\ requests[r].pc = "idle"
    /\ \E body \in PredictBodies :
         LET q == [IdleRequest EXCEPT !.endpoint = "predict", !.data = body]
         IN  requests' = [requests EXCEPT ![r] =
                IF body.kind = "empty"
                THEN Done(q, ErrorResponse(400, <<"No JSON data provided">>))
                ELSE [q EXCEPT !.pc = "received"]]
    /\ UNCHANGED <<oracleVars, validatorVars, realism, startupVars, artifactVars, subVars, trainVars>>

\* The handler goes on after a failed validation.
ValidateNoReturn(r) ==
    /\ requests[r].pc = "received"
    /\ LET q == requests[r]
           v == validate_input_api(q.data)
       IN  requests' = [requests EXCEPT ![r] =
              IF v.out = "raise"
              THEN Done([q EXCEPT !.validation = v], PredictionFailed(v.exc))
              ELSE [q EXCEPT !.validation = v, !.pc = "validated"]]
    /\ UNCHANGED <<oracleVars, validatorVars, realism, startupVars, artifactVars, subVars, trainVars>>

\* is_valid, error_message = validate_input(data); if not is_valid: 400.
Validate(r) ==
    /\ requests[r].pc = "received"
    /\ LET q == requests[r]
           v == validate_input_api(q.data)
       IN  requests' = [requests EXCEPT ![r] =
              IF v.out = "raise"
              THEN Done([q EXCEPT !.validation = v], PredictionFailed(v.exc))
              ELSE IF ~v.valid
              THEN Done([q EXCEPT !.validation = v], ErrorResponse(400, v.msg))
              ELSE [q EXCEPT !.validation = v, !.pc = "validated"]]
    /\ UNCHANGED <<oracleVars, validatorVars, realism, startupVars, artifactVars, subVars, trainVars>>

\* The list of warnings is one list of the module, shared by the requests.
CheckRealismShared(r) ==
    /\ requests[r].pc = "validated"
    /\ LET q == requests[r]
           c == check_input_realism(q.data)
       IN  requests' = [i \in RequestIds |->
              IF i # r THEN [requests[i] EXCEPT !.warnings = c.warnings]
              ELSE IF c.out = "raise"
              THEN Done(q, PredictionFailed(c.exc))
              ELSE [q EXCEPT !.warnings = c.warnings, !.pc = "checked"]]
    /\ UNCHANGED <<oracleVars, validatorVars, realism, startupVars, artifactVars, subVars, trainVars>>

\* warnings = check_input_realism(data).
CheckRealism(r) ==
    /\ requests[r].pc = "validated"
    /\ LET q == requests[r]
           c == check_input_realism(q.data)
       IN  requests' = [requests EXCEPT ![r] =
              IF c.out = "raise"
              THEN Done(q, PredictionFailed(c.exc))
              ELSE [q EXCEPT !.warnings = c.warnings, !.pc = "checked"]]
    /\ UNCHANGED <<oracleVars, validatorVars, realism, startupVars, artifactVars, subVars, trainVars>>

\* fit_transform in place of transform: the preprocessor is fitted again on the
\* frame of the request.
TransformRefitting(r) ==
    /\ requests[r].pc = "checked"
    /\ LET q == requests[r]
           race_scenario == race_scenario_api(q.data)
       IN  /\ requests' = [requests EXCEPT ![r] =
                 IF race_scenario.exc # ""
                 THEN Done(q, PredictionFailed(race_scenario.exc))
                 ELSE IF ~preprocessor.set
                 THEN Done(q, PredictionFailed("AttributeError"))
                 ELSE [q EXCEPT !.calls = @ \cup {"transform"},
                                !.X = [columns |-> race_scenario.columns, row |-> race_scenario.row],
                                !.pc = "transformed"]]
           /\ preprocessor' = IF race_scenario.exc = "" /\ preprocessor.set
                              THEN Fitted(race_scenario.columns)
                              ELSE preprocessor
    /\ UNCHANGED <<oracleVars, validatorVars, realism, startupVars, model, subVars, trainVars>>

\* race_scenario = pd.DataFrame(...); X_processed = preprocessor.transform(...).
Transform(r) ==
    /\ requests[r].pc = "checked"
    /\ LET q == requests[r]
           race_scenario == race_scenario_api(q.data)
           t == transform(preprocessor, race_scenario)
       IN  requests' = [requests EXCEPT ![r] =
              IF race_scenario.exc # ""
              THEN Done(q, PredictionFailed(race_scenario.exc))
              ELSE IF ~preprocessor.set
              THEN Done(q, PredictionFailed(t.exc))
              ELSE IF t.exc # ""
              THEN Done([q EXCEPT !.calls = @ \cup {"transform"}], PredictionFailed(t.exc))
              ELSE [q EXCEPT !.calls = @ \cup {"transform"}, !.X = t.X, !.pc = "transformed"]]
    /\ UNCHANGED <<oracleVars, validatorVars, realism, startupVars, artifactVars, subVars, trainVars>>

\* decision = model.predict(X_processed)[0], the confidence, the response.
ModelPredict(r) ==
    /\ requests[r].pc = "transformed"
    /\ LET q == requests[r]
           p == model_predict(model, q.X)
       IN  requests' = [requests EXCEPT ![r] =
              IF ~model.set
              THEN Done(q, PredictionFailed(p.exc))
              ELSE IF p.exc # ""
              THEN Done([q EXCEPT !.calls = @ \cup {"predict"}], PredictionFailed(p.exc))
              ELSE Done([q EXCEPT !.calls = @ \cup {"predict"}],
                        SuccessResponse(p.decision, q.warnings, q.data))]
    /\ UNCHANGED <<oracleVars, validatorVars, realism, startupVars, artifactVars, subVars, trainVars>>

\* The response is sent; the worker takes the next request.
Reply(r) ==
    /\ requests[r].pc = "done"
    /\ requests' = [requests EXCEPT ![r] = IdleRequest]
    /\ UNCHANGED <<oracleVars, validatorVars, realism, startupVars, artifactVars, subVars, trainVars>>

LoadedFlags ==
    (IF model.set THEN {"model_loaded"} ELSE {})
        \cup (IF preprocessor.set THEN {"preprocessor_loaded"} ELSE {})

\* GET /health.
HealthCheck(r) ==
    /\ proc = "serving"
    /\ requests[r].pc = "idle"
    /\ requests' = [requests EXCEPT ![r] =
          Done([IdleRequest EXCEPT !.endpoint = "health"],
               Response(200, "healthy", {"status", "model_loaded", "preprocessor_loaded"},
                        <<>>, "", <<>>, NoInput, LoadedFlags))]
    /\ UNCHANGED <<oracleVars, validatorVars, realism, startupVars, artifactVars, subVars, trainVars>>

\* GET /model-info: type(model).__name__ and the fixed texts; None has a type too.
ModelInfo(r) ==
    /\ proc = "serving"
    /\ requests[r].pc = "idle"
    /\ requests' = [requests EXCEPT ![r] =
          Done([IdleRequest EXCEPT !.endpoint = "model-info"],
               Response(200, "", {"model_type", "features", "possible_decisions",
                                  "race_incident_options", "strategy_notes"}
                                 \cup (IF model.set THEN {"max_depth", "n_classes"} ELSE {}),
                        <<>>, "", <<>>, NoInput,
                        {IF model.set THEN "DecisionTreeClassifier" ELSE "NoneType"}))]
    /\ UNCHANGED <<oracleVars, validatorVars, realism, startupVars, artifactVars, subVars, trainVars>>

(***************************************************************************)
(* The subscriber loop of main.py: one message of a batch at a time.       *)
(***************************************************************************)
Message(id, car_id, d) == [id |-> id, car_id |-> car_id, data |-> d]

\* message.get('_id') is None for a message without the key.
MessageIds == {"None", "id1", "id2"}

\* car_id, or "" when the message has no such key.
CarIds == {"", "car1"}

MessageBodies ==
    { Object(Fields(PyIntOf(0), PyIntOf(50), PyFloatOf(20), PyIntOf(5), PyStrOf("None"), PyIntOf(12))),
      Object(Fields(PyIntOf(1), PyIntOf(50), PyFloatOf(5), PyIntOf(5), PyStrOf("VSC"), PyIntOf(12))),
      Object(Fields(PyIntOf(0), PyStrOf("50"), PyFloatOf(20), PyIntOf(5), PyStrOf("None"), PyIntOf(12))),
      Object(Fields(PyIntOf(0), PyIntOf(101), PyFloatOf(20), PyIntOf(5), PyStrOf("None"), PyIntOf(12))),
      Object(Fields(PyIntOf(0), PyIntOf(50), PyFloatOf(20), PyIntOf(5), PyStrOf("None"), Absent)),
      Object(Fields(PyIntOf(0), PyIntOf(50), PyFloatOf(20), Inf, PyStrOf("None"), PyIntOf(12))) }

Messages == { Message(id, car, d) : id \in MessageIds, car \in CarIds, d \in MessageBodies }

\* What the loop did with a message.
Handling(message, outcome, printed, validation, warnings, calls, decision, mutation) ==
    [message |-> message, outcome |-> outcome, printed |-> printed, validation |-> validation,
     warnings |-> warnings, calls |-> calls, decision |-> decision, mutation |-> mutation]

NoMessage == Message("None", "", NoInput)
NoHandling == Handling(NoMessage, "none", <<>>, NotRun, <<>>, {}, "", "none")

\* except Exception as e: print, continue.
Failed(message, v, warnings, calls, exc) ==
    Handling(message, "error", <<"Error processing message:", exc>>, v, warnings, calls, "", "none")

\* f"{value:.1f}": a string has no format code 'f'.
FormatFloat(v) == IF v.k = "str" THEN "ValueError" ELSE ""

\* The body of the loop for a message whose _id is new: validate, check, score,
\* print, and send the decision.  convex is what client.mutation does.
ProcessMessage(message, m, p, convex) ==
    LET d == message.data
        v == validate_input_main(d)
        c == check_input_realism(d)
        race_scenario == race_scenario_main(d)
        t == transform(p, race_scenario)
        q == model_predict(m, t.X)
    IN  IF v.out = "raise" THEN Failed(message, v, <<>>, {}, v.exc)
        ELSE IF ~v.valid
        THEN Handling(message, "invalid", <<"Validation Error:">> \o v.msg, v, <<>>, {}, "", "none")
        ELSE IF c.out = "raise" THEN Failed(message, v, <<>>, {}, c.exc)
        ELSE IF race_scenario.exc # "" THEN Failed(message, v, c.warnings, {}, race_scenario.exc)
        ELSE IF ~p.set THEN Failed(message, v, c.warnings, {}, t.exc)
        ELSE IF t.exc # "" THEN Failed(message, v, c.warnings, {"transform"}, t.exc)
        ELSE IF ~m.set THEN Failed(message, v, c.warnings, {"transform"}, q.exc)
        ELSE IF q.exc # "" THEN Failed(message, v, c.warnings, {"transform", "predict"}, q.exc)
        ELSE IF FormatFloat(d.f["tire_wear_percentage"]) # ""
        THEN Failed(message, v, c.warnings, {"transform", "predict"},
                    FormatFloat(d.f["tire_wear_percentage"]))
        ELSE IF FormatFloat(d.f["performance_drop_seconds"]) # ""
        THEN Failed(message, v, c.warnings, {"transform", "predict"},
                    FormatFloat(d.f["performance_drop_seconds"]))
        ELSE Handling(message, "predicted", <<"Prediction Results:", q.decision>>, v, c.warnings,
                      {"transform", "predict"}, q.decision,
                      IF message.car_id = "" THEN "failed" ELSE convex)

Subscriber(ids, last) == [processed_message_ids |-> ids, last |-> last]

NoSubscriber == Subscriber({}, NoHandling)

Skipped(message) == Handling(message, "skipped", <<>>, NotRun, <<>>, {}, "", "none")

\* The loop without `if message_id in processed_message_ids: continue`.
ForMessageNoSkip(s, message, m, p, convex) ==
    Subscriber(s.processed_message_ids \cup {message.id}, ProcessMessage(message, m, p, convex))

\* processed_message_ids.add(message_id) moved behind the prediction.
ForMessageMarkAfter(s, message, m, p, convex) ==
    IF message.id \in s.processed_message_ids
    THEN Subscriber(s.processed_message_ids, Skipped(message))
    ELSE IF ProcessMessage(message, m, p, convex).outcome = "predicted"
    THEN Subscriber(s.processed_message_ids \cup {message.id}, ProcessMessage(message, m, p, convex))
    ELSE Subscriber(s.processed_message_ids, ProcessMessage(message, m, p, convex))

\* `break` in place of `continue` in the except clause: the messages behind a
\* failed one are dropped.
ForMessageBreaking(s, message, m, p, convex) ==
    IF message.id \in s.processed_message_ids \/ s.last.outcome = "error"
    THEN Subscriber(s.processed_message_ids, Skipped(message))
    ELSE Subscriber(s.processed_message_ids \cup {message.id}, ProcessMessage(message, m, p, convex))

\* One pass of `for message in messages`: the _id is looked up, added, and
\* only then is the message validated and scored.
ForMessage(s, message, m, p, convex) ==
    IF message.id \in s.processed_message_ids
    THEN Subscriber(s.processed_message_ids, Skipped(message))
    ELSE Subscriber(s.processed_message_ids \cup {message.id}, ProcessMessage(message, m, p, convex))

(***************************************************************************)
(* The history of one message _id: how often it was delivered, how often   *)
(* the body of the loop ran for it, how often its mutation was issued, and *)
(* what the loop did at its first delivery.                                *)
(***************************************************************************)
MaxDeliveries == 2  \* deliveries of one _id that are counted

Watched(id, deliveries, handled, issued, first) ==
    [id |-> id, deliveries |-> deliveries, handled |-> handled, issued |-> issued,
     first |-> first]

NoWatched == Watched("unwatched", 0, 0, 0, NoHandling)

Counted(n) == IF n < MaxDeliveries THEN n + 1 ELSE n

\* client.mutation is called once its arguments are there: message['car_id']
\* raises KeyError before the call.
Issued(handling) == handling.outcome = "predicted" /\ handling.message.car_id # ""

Track(w, handling) ==
    IF handling.message.id # w.id THEN w
    ELSE Watched(w.id,
                 Counted(w.deliveries),
                 IF handling.outcome # "skipped" THEN Counted(w.handled) ELSE w.handled,
                 IF Issued(handling) THEN Counted(w.issued) ELSE w.issued,
                 IF w.deliveries = 0 THEN handling ELSE w.first)

\* What client.mutation can do with a message: without a car_id it is not
\* reached.
ConvexOutcomes(message) == IF message.car_id = "" THEN {"failed"} ELSE {"sent", "failed"}

HandleMessage ==
    /\ proc = "subscribed"
    /\ \E message \in Messages :
         \E convex \in ConvexOutcomes(message) :
            /\ sub' = ForMessage(sub, message, model, preprocessor, convex)
            /\ watched' = Track(watched, sub'.last)
    /\ UNCHANGED <<oracleVars, validatorVars, realism, startupVars, artifactVars, requests, trainVars>>

(***************************************************************************)
(* generate_training_data_synthetic of train.py: the sizes of its parts.   *)
(***************************************************************************)
MaxSamples == 60    \* the largest num_samples asked for

Strata == <<"Safety Car", "VSC", "critical wear", "fresh tires", "high degradation">>

\* int(num_samples * 0.7): the double product truncates to floor(7n/10) for
\* every n of the model (the first n for which it does not is 90).
NormalSamples(num_samples) == (7 * num_samples) \div 10

StrategicSamples(num_samples) == num_samples - NormalSamples(num_samples)

\* strategic_samples // 5.
StrategicSamplesPerType(num_samples) == StrategicSamples(num_samples) \div Len(Strata)

Sizes(normal, per_type) == [normal |-> normal, per_type |-> per_type]

\* The frames put into all_samples, by their lengths.
generate_training_data_synthetic(num_samples) ==
    Sizes(NormalSamples(num_samples), StrategicSamplesPerType(num_samples))

\* len(pd.concat(all_samples, ignore_index=True)); add_decision_labels adds a
\* column and no row.
FrameLength(sizes) == sizes.normal + Len(Strata) * sizes.per_type

Generated(num_samples, called, sizes) ==
    [num_samples |-> num_samples, called |-> called, sizes |-> sizes]

NoGenerator == Generated(0, FALSE, Sizes(0, 0))

GenerateTrainingDataSynthetic ==
    /\ ~gen.called
    /\ gen' = Generated(gen.num_samples, TRUE, generate_training_data_synthetic(gen.num_samples))
    /\ UNCHANGED <<oracleVars, validatorVars, realism, startupVars, artifactVars, requests, subVars, dataset, encoded>>

(***************************************************************************)
(* generate_training_data of train.py: the rows of the frame it returns.   *)
(* Every row is drawn and labelled on its own, so a call is followed by    *)
(* one row of its frame: the part it came from, its six features and its   *)
(* 'decision'.  Drops are in tenths of a second; a half-open range of      *)
(* np.random.uniform is kept by its tenths.                                *)
(***************************************************************************)
Between(low, high) == [low |-> low, high |-> high]

\* Both ends of a range and the marked values inside it.
Drawn(range, marks) ==
    {range.low, range.high} \cup {v \in marks : range.low <= v /\ v <= range.high}

Ranges(wear, drop, incidents, laps) ==
    [tire_wear_percentage |-> wear, performance_drop_seconds |-> drop,
     race_incident |-> incidents, laps_since_pit |-> laps]

\* np.random.randint(a, b) draws a .. b-1; np.random.uniform(a, b) draws [a, b).
StratumRangesWide(stratum) ==
    CASE stratum = "Safety Car"       -> Ranges(Between(20, 89), Between(5, 29), {"Safety Car"}, Between(5, 39))
      [] stratum = "VSC"              -> Ranges(Between(25, 84), Between(5, 24), {"VSC"}, Between(5, 34))
      [] stratum = "critical wear"    -> Ranges(Between(65, 97), Between(15, 44), {"None"}, Between(30, 49))
      [] stratum = "fresh tires"      -> Ranges(Between(5, 24), Between(1, 7), {"None"}, Between(1, 7))
      [] stratum = "high degradation" -> Ranges(Between(75, 97), Between(25, 44), {"None"}, Between(8, 19))

StratumRanges(stratum) ==
    CASE stratum = "Safety Car"       -> Ranges(Between(20, 89), Between(5, 29), {"Safety Car"}, Between(5, 39))
      [] stratum = "VSC"              -> Ranges(Between(25, 84), Between(5, 24), {"VSC"}, Between(5, 34))
      [] stratum = "critical wear"    -> Ranges(Between(85, 97), Between(25, 44), {"None"}, Between(30, 49))
      [] stratum = "fresh tires"      -> Ranges(Between(5, 24), Between(1, 7), {"None"}, Between(1, 7))
      [] stratum = "high degradation" -> Ranges(Between(75, 97), Between(25, 44), {"None"}, Between(8, 19))

\* track_position = np.random.randint(1, 21), in every part.
TrackPositions == Between(1, 20)

StratumRows(stratum) ==
    LET ranges == StratumRanges(stratum)
    IN  { Row(u, w, d, p, inc, laps) :
            u \in {0, 1},
            w \in Drawn(ranges.tire_wear_percentage, WearValues),
            d \in Drawn(ranges.performance_drop_seconds, DropValues),
            p \in Drawn(TrackPositions, PositionValues),
            inc \in ranges.race_incident,
            laps \in Drawn(ranges.laps_since_pit, {}) }

\* The normal population: clip(U(0.1, 4.5) * (wear/100)**1.5 + U(-0.5, 1.5), 0.1, 4.5)
\* stays under 4.5 * (wear/100)**1.5 + 1.5.
NormalDrop(w, d) == d <= 15 \/ Square(d - 15) * 40000 < 81 * Cube(w)

\* clip(round(wear/100 * 35 * degradation_factor), 1, 60) for a factor near 1.
NormalLaps(w) == IF (35 * w) \div 100 < 1 THEN 1 ELSE (35 * w) \div 100

NormalRanges == Ranges(Between(5, 97), Between(1, 45), Incidents, Between(1, 60))

NormalRows ==
    { row \in { Row(u, w, d, p, inc, NormalLaps(w)) :
                  u \in {0, 1},
                  w \in Drawn(NormalRanges.tire_wear_percentage, WearValues),
                  d \in Drawn(NormalRanges.performance_drop_seconds, DropValues),
                  p \in Drawn(TrackPositions, PositionValues),
                  inc \in NormalRanges.race_incident } :
        NormalDrop(row.tire_wear_percentage, row.performance_drop_seconds) }

Parts == {"normal"} \cup Range(Strata)

PartRows(part) == IF part = "normal" THEN NormalRows ELSE StratumRows(part)

PartSize(sizes, part) == IF part = "normal" THEN sizes.normal ELSE sizes.per_type

Entry(part, row, decision) == [part |-> part, row |-> row, decision |-> decision]

NoEntry == Entry("none", TEST_SCENARIOS[1].input, "")

\* The rows labelled by the copy of the cascade that test_scenarios.py once had.
SyntheticEntriesStale(num_samples) ==
    LET sizes == generate_training_data_synthetic(num_samples)
    IN  UNION { { Entry(part, row, TestDecisionStale(row)) : row \in PartRows(part) } :
                part \in { p \in Parts : PartSize(sizes, p) > 0 } }

\* The rows of data = add_decision_labels(pd.concat(all_samples)): a part of
\* length zero gives none.
SyntheticEntries(num_samples) ==
    LET sizes == generate_training_data_synthetic(num_samples)
    IN  UNION { { Entry(part, row, add_decision_labels(Frame(<<row>>)).decision[1]) :
                    row \in PartRows(part) } :
                part \in { p \in Parts : PartSize(sizes, p) > 0 } }

\* A lap of a session: the columns fetch_real_f1_data reads.
Lap(lap_number, tyre_life, drop, position, incident, did_pit) ==
    [LapNumber |-> lap_number, TyreLife |-> tyre_life, drop |-> drop,
     Position |-> position, incident |-> incident, did_pit |-> did_pit]

\* Laps from the fifth on; the tyre is no older than the race, except a used set.
Laps ==
    { Lap(n, t, d, p, inc, b) :
        n \in {5, 10, 45, 46}, t \in {7, 28, 35}, d \in {0, 36},
        p \in {8, 10, 11}, inc \in Incidents, b \in BOOLEAN }

\* tire_wear = min(95, (stint_lap / 35.0) * 100), for a stint_lap that gives a
\* whole percentage.
TireWear(stint_lap) ==
    IF (stint_lap * 100) \div 35 > 95 THEN 95 ELSE (stint_lap * 100) \div 35

\* in_strategic_window = 1 if (10 <= lap_number <= 45 and position <= 10) else 0.
StrategicWindow(lap) ==
    IF 10 <= lap.LapNumber /\ lap.LapNumber <= 45 /\ lap.Position <= 10 THEN 1 ELSE 0

\* The dict appended to all_data for a lap: the label is what the driver did.
fetch_real_f1_data ==
    { Entry("real",
            Row(StrategicWindow(lap), TireWear(lap.TyreLife), lap.drop, lap.Position,
                lap.incident, lap.TyreLife),
            IF lap.did_pit THEN "PIT NOW" ELSE "STAY OUT") : lap \in Laps }

\* fetched: fetch_real_f1_data returned a frame; otherwise it raised and the
\* except clause goes on with the synthetic rows alone.
generate_training_data(use_real_data, fetched, num_samples) ==
    (IF use_real_data /\ fetched THEN fetch_real_f1_data ELSE {})
        \cup SyntheticEntries(num_samples)

Dataset(use_real_data, num_samples, called, hybrid, entry) ==
    [use_real_data |-> use_real_data, num_samples |-> num_samples, called |-> called,
     hybrid |-> hybrid, entry |-> entry]

NoDataset == Dataset(FALSE, 0, FALSE, FALSE, NoEntry)

GenerateTrainingData ==
    /\ ~dataset.called
    /\ \E fetched \in BOOLEAN :
         LET use_real_data == dataset.use_real_data
             num_samples == dataset.num_samples
             combined_data == generate_training_data(use_real_data, fetched, num_samples)
         IN  /\ fetched => use_real_data
             /\ IF combined_data = {}
                THEN dataset' = Dataset(use_real_data, num_samples, TRUE, FALSE, NoEntry)
                ELSE \E entry \in combined_data :
                        dataset' = Dataset(use_real_data, num_samples, TRUE,
                                           use_real_data /\ fetched, entry)
    /\ UNCHANGED <<oracleVars, validatorVars, realism, startupVars, artifactVars, requests,
                   subVars, gen, encoded>>

(***************************************************************************)
(* create_preprocessor of train.py: what the fitted ColumnTransformer does *)
(* with one row.                                                           *)
(***************************************************************************)
categorical_features == <<"race_incident">>

numerical_features ==
    <<"tire_wear_percentage", "performance_drop_seconds", "track_position", "laps_since_pit">>

\* The columns left to remainder='passthrough'.
remainder == <<"undercut_overcut_opportunity">>

\* categories_ of a OneHotEncoder is sorted.
SortedIncidents == <<"None", "Safety Car", "VSC", "Yellow Flag">>

\* An incident no training row has and no validator lets through.
UnknownIncident == "Red Flag"

Categories(seen) == SelectSeq(SortedIncidents, LAMBDA c : c \in seen)

Encoding(exc, block) == [exc |-> exc, block |-> block]

\* OneHotEncoder() as it is without the keyword: handle_unknown='error'.
OneHotErrorOnUnknown(categories, value) ==
    IF value \notin Range(categories) THEN Encoding("ValueError", <<>>)
    ELSE Encoding("", [i \in DOMAIN categories |-> IF categories[i] = value THEN 1 ELSE 0])

\* OneHotEncoder(handle_unknown='ignore').transform: one column per fitted
\* category, 1 in the column of the value; an unknown value has no column.
OneHotEncoder(categories, value) ==
    Encoding("", [i \in DOMAIN categories |-> IF categories[i] = value THEN 1 ELSE 0])

\* StandardScaler().transform of one value: (x - mean_) / scale_ of its column,
\* the two fixed by fit and left unevaluated.
StandardScaler(column, x) == [column |-> column, x |-> x]

Preprocessed(exc, X) == [exc |-> exc, X |-> X]

\* ColumnTransformer.transform: the blocks of 'cat' and 'num' side by side,
\* then the columns passed through.
preprocessor_transform(categories, row) ==
    LET cat == OneHotEncoder(categories, row[categorical_features[1]])
        num == [i \in DOMAIN numerical_features |->
                   StandardScaler(numerical_features[i], row[numerical_features[i]])]
        rest == [i \in DOMAIN remainder |-> row[remainder[i]]]
    IN  IF cat.exc # "" THEN Preprocessed(cat.exc, <<>>)
        ELSE Preprocessed("", cat.block \o num \o rest)

Encoded(seen, fitted, categories, row, called, out) ==
    [seen |-> seen, fitted |-> fitted, categories |-> categories, row |-> row,
     called |-> called, out |-> out]

NoEncoded == Encoded({}, FALSE, <<>>, TEST_SCENARIOS[1].input, FALSE, Preprocessed("", <<>>))

\* The rows given to the fitted preprocessor.
EncodedRows ==
    { Row(u, 50, 20, 5, inc, 12) : u \in {0, 1}, inc \in Incidents \cup {UnknownIncident} }

\* preprocessor.fit_transform(X_train): the encoder learns the incidents of
\* X_train.
FitPreprocessor ==
    /\ ~encoded.fitted
    /\ encoded.seen # {}
    /\ encoded' = [encoded EXCEPT !.fitted = TRUE, !.categories = Categories(encoded.seen)]
    /\ UNCHANGED <<oracleVars, validatorVars, realism, startupVars, artifactVars, requests,
                   subVars, gen, dataset>>

\* preprocessor.transform(race_scenario).
PreprocessorTransform ==
    /\ encoded.fitted
    /\ ~encoded.called
    /\ encoded' = [encoded EXCEPT !.called = TRUE,
                                  !.out = preprocessor_transform(encoded.categories, encoded.row)]
    /\ UNCHANGED <<oracleVars, validatorVars, realism, startupVars, artifactVars, requests,
                   subVars, gen, dataset>>

\* The other parts at rest.
InitEngineIdle ==
    /\ realism = NoRealism
    /\ disk = NoDisk
    /\ program = "api"
    /\ proc = "start"
    /\ model = NoneObject
    /\ preprocessor = NoneObject
    /\ requests = [r \in RequestIds |-> IdleRequest]
    /\ sub = NoSubscriber
    /\ watched = NoWatched
    /\ gen = NoGenerator
    /\ dataset = NoDataset
    /\ encoded = NoEncoded

InitValidatorIdle ==
    /\ input = NoInput
    /\ result = Called("none", NotRun)

InitOracleIdle ==
    /\ data = Frame(<<>>)
    /\ returned = NoReturn
    /\ branches = <<>>
    /\ testDecisions = <<>>
    /\ watch = NoWatch

\* One scenario of the grid, labelled by the oracle and by the test's copy.
InitOracle ==
    /\ \E row \in ScenarioGrid : data = Frame(<<row>>)
    /\ returned = NoReturn
    /\ branches = <<>>
    /\ testDecisions = <<>>
    /\ watch = NoWatch
    /\ InitValidatorIdle
    /\ InitEngineIdle

NextOracle ==
    \/ AddDecisionLabels
    \/ TestDecisionLogic

SpecOracle == InitOracle /\ [][NextOracle]_vars

\* Frames of TEST_SCENARIOS inputs, built and labelled one after another.
InitRelabel ==
    /\ \E row \in TestInputs : data = Frame(<<row>>)
    /\ returned = NoReturn
    /\ branches = <<>>
    /\ testDecisions = <<>>
    /\ watch = NoWatch
    /\ InitValidatorIdle
    /\ InitEngineIdle

NextRelabel ==
    \/ NewFrame
    \/ AppendRow
    \/ AddDecisionLabels
    \/ TestDecisionLogic

SpecRelabel == InitRelabel /\ [][NextRelabel]_vars

InitValidate ==
    /\ input \in Inputs
    /\ result = Called("none", NotRun)
    /\ InitOracleIdle
    /\ InitEngineIdle

NextValidate ==
    \/ ValidateInputApi
    \/ ValidateInputMain

SpecValidate == InitValidate /\ [][NextValidate]_vars

\* One call of check_input_realism on each input.
InitRealism ==
    /\ InitOracleIdle
    /\ InitValidatorIdle
    /\ \E d \in RealismInputs : realism = Checked("none", d, Realism("none", <<>>, ""))
    /\ disk = NoDisk
    /\ program = "api"
    /\ proc = "start"
    /\ model = NoneObject
    /\ preprocessor = NoneObject
    /\ requests = [r \in RequestIds |-> IdleRequest]
    /\ sub = NoSubscriber
    /\ watched = NoWatched
    /\ gen = NoGenerator
    /\ dataset = NoDataset
    /\ encoded = NoEncoded

NextRealism ==
    \/ CheckInputRealismApi
    \/ CheckInputRealismMain

SpecRealism == InitRealism /\ [][NextRealism]_vars

\* python api.py or python main.py, from its first line: any files on disk.
InitStartup ==
    /\ InitOracleIdle
    /\ InitValidatorIdle
    /\ realism = NoRealism
    /\ disk \in Disks
    /\ program \in {"api", "main"}
    /\ proc = "start"
    /\ model = NoneObject
    /\ preprocessor = NoneObject
    /\ requests = [r \in RequestIds |-> IdleRequest]
    /\ sub = NoSubscriber
    /\ watched = NoWatched
    /\ gen = NoGenerator
    /\ dataset = NoDataset
    /\ encoded = NoEncoded

\* The development server of this process takes its requests one at a time here.
FirstRequest == CHOOSE r \in RequestIds : \A q \in RequestIds : r <= q

NextStartup ==
    \/ ApiMain
    \/ SubscriberMain
    \/ Receive(FirstRequest)
    \/ Validate(FirstRequest)
    \/ CheckRealism(FirstRequest)
    \/ Transform(FirstRequest)
    \/ ModelPredict(FirstRequest)
    \/ Reply(FirstRequest)
    \/ HealthCheck(FirstRequest)
    \/ ModelInfo(FirstRequest)
    \/ HandleMessage

SpecStartup == InitStartup /\ [][NextStartup]_vars

\* The globals of a served app: not loaded (the app object imported and served
\* without main()), loaded, or left half loaded by a load_models that raised.
ServedArtifacts ==
    { <<NoneObject, NoneObject>> }
    \cup { <<Artifact(mf), Artifact(pf)>> : mf \in {"five", "six"}, pf \in {"five", "six"} }
    \cup { <<Artifact(mf), NoneObject>> : mf \in {"five", "six"} }

\* The Flask app serving, with threads handling requests at the same time.
InitService ==
    /\ InitOracleIdle
    /\ InitValidatorIdle
    /\ realism = NoRealism
    /\ disk = NoDisk
    /\ program = "api"
    /\ proc = "serving"
    /\ \E a \in ServedArtifacts : model = a[1] /\ preprocessor = a[2]
    /\ requests = [r \in RequestIds |-> IdleRequest]
    /\ sub = NoSubscriber
    /\ watched = NoWatched
    /\ gen = NoGenerator
    /\ dataset = NoDataset
    /\ encoded = NoEncoded

NextService ==
    \/ \E r \in RequestIds : Receive(r)
    \/ \E r \in RequestIds : Validate(r)
    \/ \E r \in RequestIds : CheckRealism(r)
    \/ \E r \in RequestIds : Transform(r)
    \/ \E r \in RequestIds : ModelPredict(r)
    \/ \E r \in RequestIds : Reply(r)
    \/ \E r \in RequestIds : HealthCheck(r)
    \/ \E r \in RequestIds : ModelInfo(r)

SpecService == InitService /\ [][NextService]_vars

\* One call of generate_training_data_synthetic for each num_samples.
InitGenerate ==
    /\ InitOracleIdle
    /\ InitValidatorIdle
    /\ realism = NoRealism
    /\ disk = NoDisk
    /\ program = "api"
    /\ proc = "start"
    /\ model = NoneObject
    /\ preprocessor = NoneObject
    /\ requests = [r \in RequestIds |-> IdleRequest]
    /\ sub = NoSubscriber
    /\ watched = NoWatched
    /\ \E n \in 0 .. MaxSamples : gen = Generated(n, FALSE, Sizes(0, 0))
    /\ dataset = NoDataset
    /\ encoded = NoEncoded

NextGenerate == GenerateTrainingDataSynthetic

SpecGenerate == InitGenerate /\ [][NextGenerate]_vars

\* num_samples at which the parts of the synthetic frame change from empty to
\* not: no row below 2, the normal population alone below 14.
SampleCounts == {0, 1, 2, 13, 14, MaxSamples}

\* One call of generate_training_data, with and without use_real_data.
InitDataset ==
    /\ InitOracleIdle
    /\ InitValidatorIdle
    /\ realism = NoRealism
    /\ disk = NoDisk
    /\ program = "api"
    /\ proc = "start"
    /\ model = NoneObject
    /\ preprocessor = NoneObject
    /\ requests = [r \in RequestIds |-> IdleRequest]
    /\ sub = NoSubscriber
    /\ watched = NoWatched
    /\ gen = NoGenerator
    /\ \E use_real_data \in BOOLEAN, n \in SampleCounts :
         dataset = Dataset(use_real_data, n, FALSE, FALSE, NoEntry)
    /\ encoded = NoEncoded

NextDataset == GenerateTrainingData

SpecDataset == InitDataset /\ [][NextDataset]_vars

\* A preprocessor fitted on the incidents some training frame holds, then
\* given one row.
InitEncode ==
    /\ InitOracleIdle
    /\ InitValidatorIdle
    /\ realism = NoRealism
    /\ disk = NoDisk
    /\ program = "api"
    /\ proc = "start"
    /\ model = NoneObject
    /\ preprocessor = NoneObject
    /\ requests = [r \in RequestIds |-> IdleRequest]
    /\ sub = NoSubscriber
    /\ watched = NoWatched
    /\ gen = NoGenerator
    /\ dataset = NoDataset
    /\ \E seen \in SUBSET Incidents \ {{}}, row \in EncodedRows :
         encoded = Encoded(seen, FALSE, <<>>, row, FALSE, Preprocessed("", <<>>))

NextEncode ==
    \/ FitPreprocessor
    \/ PreprocessorTransform

SpecEncode == InitEncode /\ [][NextEncode]_vars

\* The subscriber of main.py past its start, with the artifacts train.py
\* saves, and one message _id followed through the deliveries.
InitSubscriber ==
    /\ InitOracleIdle
    /\ InitValidatorIdle
    /\ realism = NoRealism
    /\ disk = [i \in DOMAIN possible_paths |-> Location("six", "six")]
    /\ program = "main"
    /\ proc = "subscribed"
    /\ model = Artifact("six")
    /\ preprocessor = Artifact("six")
    /\ requests = [r \in RequestIds |-> IdleRequest]
    /\ sub = NoSubscriber
    /\ \E id \in MessageIds : watched = Watched(id, 0, 0, 0, NoHandling)
    /\ gen = NoGenerator
    /\ dataset = NoDataset
    /\ encoded = NoEncoded

NextSubscriber == HandleMessage

SpecSubscriber == InitSubscriber /\ [][NextSubscriber]_vars


(***************************************************************************)
(* Properties of the oracle.                                               *)
(***************************************************************************)
\* The six conditions as the specification lists them, by number.
RuleHolds(k, row) ==
    CASE k = 1 -> row.race_incident = "Safety Car" \/ row.race_incident = "VSC"
      [] k = 2 -> row.tire_wear_percentage > 85
      [] k = 3 -> row.performance_drop_seconds > 35
      [] k = 4 -> /\ row.undercut_overcut_opportunity = 1
                  /\ row.tire_wear_percentage > 40
                  /\ row.track_position <= 8
      [] k = 5 -> row.performance_drop_seconds > 25 /\ row.tire_wear_percentage > 65
      [] k = 6 -> row.performance_drop_seconds > 20 /\ row.tire_wear_percentage > 75

RulesHolding(row) == { k \in 1..6 : RuleHolds(k, row) }

\* C1: add_decision_labels labels a scenario PIT NOW exactly when at least one
\* of the six conditions holds, and STAY OUT in every other case.
C1_PitNowIffSomeRule ==
    data.labelled =>
        /\ DOMAIN data.decision = DOMAIN data.rows
        /\ \A i \in DOMAIN data.rows :
              /\ data.decision[i] = "PIT NOW" <=> RulesHolding(data.rows[i]) # {}
              /\ RulesHolding(data.rows[i]) = {} => data.decision[i] = "STAY OUT"

\* A scenario only the sixth condition covers (drop 2.1, wear 76) is labelled
\* PIT NOW.
C1_Witness ==
    /\ data.labelled
    /\ data.rows = <<Row(0, 76, 21, 9, "None", 1)>>
    /\ data.decision = <<"PIT NOW">>

\* C2: under a Safety Car or a VSC the decision is PIT NOW, whatever the wear,
\* the drop, the position, the undercut flag and laps_since_pit are.
C2_IncidentAlwaysPits ==
    data.labelled =>
        \A i \in DOMAIN data.rows :
            data.rows[i].race_incident \in {"Safety Car", "VSC"}
                => data.decision[i] = "PIT NOW"

\* A VSC scenario no other rule covers has been labelled.
C2_Witness ==
    /\ data.labelled
    /\ data.rows = <<Row(0, 40, 20, 9, "VSC", 40)>>
    /\ data.decision = <<"PIT NOW">>

C4_InputUnchanged == [][AddDecisionLabels => data' = data]_vars

\* C4 as amended: labeling leaves every feature of every row of the caller's
\* data unchanged; it writes the 'decision' column into the caller's data
\* itself and returns that same data.
C4_OnlyDecisionColumnWritten ==
    [][AddDecisionLabels =>
          /\ data'.rows = data.rows
          /\ data'.labelled
          /\ returned'.set /\ returned'.frame = data']_vars

\* A frame of two rows has been labelled and returned.
C4_Witness ==
    /\ returned.set
    /\ returned.frame = data
    /\ data.labelled
    /\ Len(data.rows) = 2
    /\ data.decision = <<"PIT NOW", "STAY OUT">>

\* C5: the cascade copied into test_decision_logic gives the decision
\* add_decision_labels gives, for every scenario.
C5_TestCopyAgrees ==
    (data.labelled /\ testDecisions # <<>>) => testDecisions = data.decision

\* Both cascades have run on a scenario that only the undercut rule covers, at
\* position 8.
C5_Witness ==
    /\ data.labelled
    /\ data.rows = <<Row(1, 41, 20, 8, "None", 1)>>
    /\ testDecisions = <<"PIT NOW">>

\* C6 as stated: at most one of the six rule conditions holds of a scenario.
C6_RulesExclusive ==
    data.labelled =>
        \A i \in DOMAIN data.rows : Cardinality(RulesHolding(data.rows[i])) <= 1

\* C6 as amended: the conditions overlap, and the cascade runs exactly one
\* branch: the first rule, in order, whose condition holds, or the default
\* when none does.
C6_FirstMatchRuns ==
    data.labelled =>
        /\ DOMAIN branches = DOMAIN data.rows
        /\ \A i \in DOMAIN data.rows :
              LET holding == RulesHolding(data.rows[i])
              IN  /\ holding = {} => branches[i] = 7
                  /\ holding # {} =>
                        /\ branches[i] \in holding
                        /\ \A k \in holding : branches[i] <= k

\* A Safety Car scenario with critical wear and a large drop: rules 1, 2, 3, 5
\* and 6 hold, and the first branch ran.
C6_Witness ==
    /\ data.labelled
    /\ data.rows = <<Row(0, 86, 36, 9, "Safety Car", 1)>>
    /\ Cardinality(RulesHolding(data.rows[1])) = 5
    /\ branches = <<1>>

(***************************************************************************)
(* Properties of validate_input.                                           *)
(***************************************************************************)
\* The checks as the specification words them.  A number is what Python reads
\* as a finite number (a numeric string and a boolean included); NaN is in no
\* range; an integer has no fractional part.
Finite(v) ==
    \/ v.k \in {"int", "bool", "bigint", "float"}
    \/ v.k = "str" /\ v.s \in DOMAIN FloatLiterals

Tenths(v) ==
    CASE v.k \in {"int", "bool", "bigint"} -> 10 * v.n
      [] v.k = "float" -> v.n
      [] v.k = "str" -> FloatLiterals[v.s]

Integral(v) ==
    \/ v.k \in {"int", "bool", "bigint"}
    \/ v.k = "float" /\ v.n % 10 = 0
    \/ v.k = "str" /\ v.s \in DOMAIN IntLiterals

CheckFails(field, v) ==
    CASE field = "undercut_overcut_opportunity" ->
            ~(Finite(v) /\ Tenths(v) \in {0, 10})
      [] field = "tire_wear_percentage" ->
            ~(Finite(v) /\ 0 <= Tenths(v) /\ Tenths(v) <= 1000)
      [] field = "performance_drop_seconds" ->
            ~((Finite(v) /\ Tenths(v) >= 0) \/ v.k = "inf")
      [] field = "track_position" ->
            ~(Integral(v) /\ Finite(v) /\ 10 <= Tenths(v) /\ Tenths(v) <= 200)
      [] field = "race_incident" ->
            ~(v.k = "str" /\ v.s \in {"None", "Yellow Flag", "Safety Car", "VSC"})
      [] field = "laps_since_pit" ->
            ~(Integral(v) /\ Finite(v) /\ Tenths(v) >= 0)

Omitted(d, required) == SelectSeq(required, LAMBDA field : d.f[field] = Absent)

Required(who) == IF who = "api" THEN required_fields_api ELSE required_fields_main

\* The fields present and failing their check, in the order of the checks.
Failing(d, required) ==
    SelectSeq(required, LAMBDA field : d.f[field] # Absent /\ CheckFails(field, d.f[field]))

\* C7 as stated: validate_input of api.py returns valid exactly when the five
\* fields are present and each passes its check.
C7_ValidIffAllChecksPass ==
    result.who = "api" =>
        ((result.out = "return" /\ result.valid)
            <=> /\ input.kind = "object"
                /\ Omitted(input, required_fields_api) = <<>>
                /\ Failing(input, required_fields_api) = <<>>)

\* C8 as stated: of several failures only the first, in the order missing
\* fields, undercut, wear, drop, position, incident, is reported, and the
\* reason names its field.
C8_FirstFailureReported ==
    (/\ result.who \in {"api", "main"}
     /\ input.kind = "object"
     /\ LET required == Required(result.who)
        IN  Len(Failing(input, required))
              + (IF Omitted(input, required) # <<>> THEN 1 ELSE 0) >= 2)
    => LET required == Required(result.who)
       IN  /\ result.out = "return"
           /\ ~result.valid
           /\ IF Omitted(input, required) # <<>>
              THEN result.msg = <<"Missing required fields:">> \o Omitted(input, required)
              ELSE result.msg[1] = Failing(input, required)[1]

\* C9: an object that omits one of the five required fields is reported invalid,
\* whatever its other fields hold, and the reason names the omitted field.
C9_OmittedFieldNamed ==
    (result.who \in {"api", "main"} /\ input.kind = "object") =>
        \A field \in Range(required_fields_api) :
            input.f[field] = Absent =>
                /\ result.out = "return"
                /\ ~result.valid
                /\ result.msg[1] = "Missing required fields:"
                /\ \E i \in 2..Len(result.msg) : result.msg[i] = field

\* The request of test_api.py without performance_drop_seconds, here also without
\* race_incident and with a track_position int() cannot convert.
C9_Witness ==
    /\ result.who = "api"
    /\ input.kind = "object"
    /\ input.f["performance_drop_seconds"] = Absent
    /\ input.f["race_incident"] = Absent
    /\ input.f["track_position"] = Inf
    /\ input.f["tire_wear_percentage"] = BigInt
    /\ result.msg = <<"Missing required fields:", "performance_drop_seconds", "race_incident">>

\* C10 as stated: validate_input never raises.
C10_NeverRaises == result.out # "raise"

(***************************************************************************)
(* Properties of the predict endpoint and of the subscriber.               *)
(***************************************************************************)
Rejected(v) == v.out = "return" /\ ~v.valid
Accepted(v) == v.out = "return" /\ v.valid

Labels == {"PIT NOW", "STAY OUT"}

\* C11: a predict request that validate_input rejects gets the 400 response
\* carrying the validator's message; preprocessor.transform and model.predict
\* are invoked only for a request the validator accepted.  The same holds for
\* a subscriber message: a rejected one is reported with the validator's
\* message, is not scored and sends no decision.
C11_RejectedNeverScored ==
    /\ \A r \in RequestIds :
         LET q == requests[r]
         IN  /\ Rejected(q.validation) =>
                  /\ q.pc = "done"
                  /\ q.response.code = 400
                  /\ q.response.status = "error"
                  /\ q.response.error = q.validation.msg
                  /\ q.response.error # <<>>
                  /\ "decision" \notin q.response.keys
             /\ q.calls # {} => Accepted(q.validation)
    /\ LET h == sub.last
       IN  /\ Rejected(h.validation) =>
                /\ h.outcome = "invalid"
                /\ h.printed = <<"Validation Error:">> \o h.validation.msg
                /\ h.decision = ""
                /\ h.mutation = "none"
           /\ (h.calls # {} \/ h.mutation # "none") => Accepted(h.validation)

C11_Witness ==
    /\ Rejected(requests[FirstRequest].validation)
    /\ requests[FirstRequest].response.code = 400
    /\ model.set
    /\ preprocessor.set

\* C12 as stated: every input validate_input accepts gets a success response
\* with a decision, with the warnings of the realism check in it, when the
\* artifacts in use are those train.py fits.
C12_AcceptedGetsDecision ==
    \A r \in RequestIds :
        LET q == requests[r]
        IN  ( /\ q.pc = "done"
              /\ q.endpoint = "predict"
              /\ Accepted(q.validation)
              /\ model = Fitted(TrainFeatures)
              /\ preprocessor = Fitted(TrainFeatures) ) =>
                /\ q.response.code = 200
                /\ q.response.status = "success"
                /\ q.response.decision \in Labels
                /\ q.response.warnings = q.warnings

(***************************************************************************)
(* Properties of check_input_realism.                                      *)
(***************************************************************************)
\* The band as the specification gives it, for wear w in percent and a drop of
\* dt tenths of a second: upper = 4.5*(w/100)^1.5 + 1.5 and
\* lower = max(0.1, 4.5*(w/100)^1.5 - 0.5).  x > 4.5*(w/100)^1.5 is compared as
\* (200*10*x)^2 > 81*w^3 for x >= 0.
OverUpper(w, dt) == dt - 15 > 0 /\ Square(200 * (dt - 15)) > 81 * Cube(w)
AtUpper(w, dt)   == dt - 15 >= 0 /\ Square(200 * (dt - 15)) = 81 * Cube(w)
UnderLower(w, dt) ==
    \/ 10 * dt < 10
    \/ dt + 5 >= 0 /\ Square(200 * (dt + 5)) < 81 * Cube(w)
AtLower(w, dt) ==
    IF Square(200 * 6) >= 81 * Cube(w) THEN dt = 1
    ELSE Square(200 * (dt + 5)) = 81 * Cube(w)

About(warnings) == { warnings[i].about : i \in DOMAIN warnings }

C14_DecisionOrError ==
    \A r \in RequestIds :
        LET q == requests[r]
            a == q.response
        IN  (q.pc = "done" /\ q.endpoint = "predict") =>
                \/ /\ a.code = 200
                   /\ a.status = "success"
                   /\ "decision" \in a.keys
                   /\ a.decision \in Labels
                   /\ "error" \notin a.keys
                   /\ a.error = <<>>
                \/ /\ a.code \in {400, 500}
                   /\ a.status = "error"
                   /\ "error" \in a.keys
                   /\ a.error # <<>>
                   /\ "decision" \notin a.keys
                   /\ a.decision = ""

\* Two requests answered at the same time, one of each kind.
C14_Witness ==
    \E r, s \in RequestIds :
        /\ requests[r].pc = "done"
        /\ requests[r].endpoint = "predict"
        /\ requests[r].response.code = 200
        /\ requests[s].pc = "done"
        /\ requests[s].endpoint = "predict"
        /\ requests[s].response.code = 500

Exceptions == {"AttributeError", "ValueError", "TypeError", "OverflowError"}

\* C15: a valid predict request that meets an artifact that is not loaded, or
\* a transform or predict that raises, gets the 500 response whose message
\* holds the cause; the handler ends there and the service goes on serving.
C15_FailureIsReported ==
    \A r \in RequestIds :
        LET q == requests[r]
            a == q.response
        IN  /\ (q.pc = "done" /\ q.endpoint = "predict" /\ Accepted(q.validation)) =>
                 /\ a.code \in {200, 500}
                 /\ (~model.set \/ ~preprocessor.set) => a.code = 500
                 /\ a.code = 500 =>
                      /\ a.status = "error"
                      /\ Len(a.error) = 2
                      /\ a.error[1] = "Prediction failed:"
                      /\ a.error[2] \in Exceptions
                      /\ ~preprocessor.set => a.error[2] = "AttributeError"
                 /\ a.code = 200 => q.calls = {"transform", "predict"}
            /\ proc = "serving"
            /\ q.pc = "done" => ENABLED Reply(r)

\* A request failed on the artifacts that are not loaded while another one is
\* being handled.
C15_Witness ==
    \E r, s \in RequestIds :
        /\ ~preprocessor.set
        /\ requests[r].pc = "done"
        /\ Accepted(requests[r].validation)
        /\ requests[r].response.code = 500
        /\ requests[s].pc = "validated"

(***************************************************************************)
(* Properties of the loading of the artifacts.                             *)
(***************************************************************************)
\* C16 as stated: once load_models has returned or raised, model and
\* preprocessor are both set or both unset.
C16_LoadedTogether ==
    proc # "start" => (model.set <=> preprocessor.set)

Handled ==
    \/ \E r \in RequestIds : requests[r].pc # "idle"
    \/ sub.last.outcome # "none"

\* C17: a request or a message is handled only after load_models has returned
\* with both artifacts; when no location holds both files the process prints
\* the error and returns, and nothing is ever handled.
C17_LoadBeforeServing ==
    /\ Handled =>
         /\ proc \in {"serving", "subscribed"}
         /\ FoundPath(disk) # 0
         /\ model.set
         /\ preprocessor.set
    /\ FoundPath(disk) = 0 =>
         /\ proc \in {"start", "returned"}
         /\ ~Handled
    /\ proc \in {"serving", "subscribed"} => (model.set /\ preprocessor.set)

C17_Witness ==
    /\ program = "api"
    /\ requests[FirstRequest].pc = "done"
    /\ requests[FirstRequest].endpoint = "health"
    /\ requests[FirstRequest].response.info = {"model_loaded", "preprocessor_loaded"}

\* C18: once the artifacts are loaded, no handler assigns or changes model or
\* preprocessor.
ArtifactsKept == model' = model /\ preprocessor' = preprocessor

C18_ArtifactsFrozen ==
    [][(proc \in {"serving", "subscribed"}) => ArtifactsKept]_vars

\* Both artifacts have been used by a request, or by a message.
C18_Witness ==
    /\ model.set
    /\ preprocessor.set
    /\ \/ requests[FirstRequest].calls = {"transform", "predict"}
       \/ sub.last.calls = {"transform", "predict"}
    /\ \/ requests[FirstRequest].response.code = 200
       \/ sub.last.outcome = "predicted"

(***************************************************************************)
(* Requests handled at the same time.                                      *)
(***************************************************************************)
\* predict run from its first line to its return with nothing else running.
PredictAlone(d, m, p) ==
    LET v == validate_input_api(d)
        c == check_input_realism(d)
        race_scenario == race_scenario_api(d)
        t == transform(p, race_scenario)
        q == model_predict(m, t.X)
    IN  IF d.kind = "empty" THEN ErrorResponse(400, <<"No JSON data provided">>)
        ELSE IF v.out = "raise" THEN PredictionFailed(v.exc)
        ELSE IF ~v.valid THEN ErrorResponse(400, v.msg)
        ELSE IF c.out = "raise" THEN PredictionFailed(c.exc)
        ELSE IF race_scenario.exc # "" THEN PredictionFailed(race_scenario.exc)
        ELSE IF t.exc # "" THEN PredictionFailed(t.exc)
        ELSE IF q.exc # "" THEN PredictionFailed(q.exc)
        ELSE SuccessResponse(q.decision, c.warnings, d)

\* C19: however the steps of concurrent predict requests interleave, the
\* response of each is the one its own input gets when handled alone.
C19_ResponseAsAlone ==
    \A r \in RequestIds :
        LET q == requests[r]
        IN  (q.pc = "done" /\ q.endpoint = "predict") =>
                q.response = PredictAlone(q.data, model, preprocessor)

\* Two requests with different inputs answered, one was still in the handler
\* when the other was: a success with a warning next to one without.
C19_Witness ==
    \E r, s \in RequestIds :
        /\ r # s
        /\ requests[r].pc = "done"
        /\ requests[s].pc = "done"
        /\ requests[r].response.code = 200
        /\ requests[s].response.code = 200
        /\ requests[r].response.warnings # <<>>
        /\ requests[s].response.warnings = <<>>

(***************************************************************************)
(* Properties of the synthetic data generator.                             *)
(***************************************************************************)
\* C20 as stated: generate_training_data_synthetic(N) returns exactly N
\* scenarios, int(0.7*N) normal ones and the rest over the five strata.
C20_ExactlyNumSamples ==
    gen.called =>
        /\ FrameLength(gen.sizes) = gen.num_samples
        /\ gen.sizes.normal = NormalSamples(gen.num_samples)

\* The label the comment over each stratum gives it: "should PIT", and for the
\* fresh tires "should STAY OUT".
StratumLabel(part) == IF part = "fresh tires" THEN "STAY OUT" ELSE "PIT NOW"

\* The labels of the rows a part can hold, over all of its ranges.
PartLabels(part) ==
    { add_decision_labels(Frame(<<row>>)).decision[1] : row \in PartRows(part) }

\* C21, amended: the rows of the Safety Car, VSC and critical-wear strata all
\* carry PIT NOW and the rows of the fresh-tire stratum all carry STAY OUT;
\* none of these four subsets can hold both labels.
C21_StrataOneLabel ==
    ( /\ dataset.called
      /\ dataset.entry.part \in Range(Strata)
      /\ dataset.entry.part # "high degradation" ) =>
        dataset.entry.decision = StratumLabel(dataset.entry.part)

\* A fresh-tire row with an undercut chance in the top eight stays out, and a
\* Safety Car row with no wear to speak of pits.
C21_Witness ==
    /\ dataset.called
    /\ \/ /\ dataset.entry.part = "fresh tires"
          /\ dataset.entry.row.undercut_overcut_opportunity = 1
          /\ dataset.entry.row.track_position <= 8
          /\ dataset.entry.decision = "STAY OUT"
       \/ /\ dataset.entry.part = "Safety Car"
          /\ dataset.entry.row.tire_wear_percentage = 20
          /\ dataset.entry.decision = "PIT NOW"

\* C21 as stated: over the ranges of its stratum, the subset of every stratum
\* can hold both labels.
C21_BothLabelsInEveryStratum ==
    (dataset.called /\ dataset.entry.part \in Range(Strata)) =>
        PartLabels(dataset.entry.part) = Labels

\* C22, amended: every synthetic row of the frame generate_training_data
\* returns carries the oracle's decision for its features, and without real
\* data every row is synthetic; a real row carries what the driver did.
C22_SyntheticRowsOracleLabelled ==
    dataset.called =>
        /\ dataset.entry.part \in Parts => dataset.entry.decision = Decision(dataset.entry.row)
        /\ dataset.entry.part = "real" => dataset.hybrid
        /\ dataset.hybrid => dataset.use_real_data

\* A synthetic row of a hybrid frame has been labelled PIT NOW by the undercut
\* rule alone.
C22_Witness ==
    /\ dataset.called
    /\ dataset.hybrid
    /\ dataset.entry.part = "normal"
    /\ dataset.entry.decision = "PIT NOW"
    /\ RulesHolding(dataset.entry.row) = {4}

\* C22 as stated: every row of the returned frame, real or synthetic, carries
\* the oracle's decision.
C22_EveryRowOracleLabelled ==
    (dataset.called /\ dataset.entry.part # "none") =>
        dataset.entry.decision = Decision(dataset.entry.row)

(***************************************************************************)
(* Properties of the preprocessing at inference time.                      *)
(***************************************************************************)
\* C23 as stated: with the preprocessor train.py fits, the frame predict and
\* the subscriber build for an accepted input has the columns the
\* preprocessor was fitted on, and transform does not raise on it.
C23_ColumnsAsFitted ==
    preprocessor = Fitted(TrainFeatures) =>
        /\ \A r \in RequestIds :
              LET q == requests[r]
                  race_scenario == race_scenario_api(q.data)
              IN  (q.endpoint = "predict" /\ Accepted(q.validation) /\ race_scenario.exc = "") =>
                     /\ race_scenario.columns = preprocessor.feature_names_in
                     /\ transform(preprocessor, race_scenario).exc = ""
        /\ LET race_scenario == race_scenario_main(sub.last.message.data)
           IN  (Accepted(sub.last.validation) /\ race_scenario.exc = "") =>
                  /\ race_scenario.columns = preprocessor.feature_names_in
                  /\ transform(preprocessor, race_scenario).exc = ""

\* C29 as stated: every row of the Safety Car, VSC, critical-wear and
\* high-degradation strata is labelled PIT NOW, every row of the fresh-tire
\* stratum STAY OUT.
C29_StrataLabelledAsMeant ==
    (dataset.called /\ dataset.entry.part \in Range(Strata)) =>
        dataset.entry.decision = StratumLabel(dataset.entry.part)

\* C24: a fitted preprocessor does not raise on a race_incident no row had at
\* fit time; the categorical block of such a row is all zero, the block of a
\* row with a fitted incident has a single 1, and the output is as wide as
\* for every incident seen at fit time.
C24_UnknownIncidentAllZero ==
    encoded.called =>
        LET block == 1 .. Len(encoded.categories)
            ones == { i \in block : encoded.out.X[i] = 1 }
            zeros == { i \in block : encoded.out.X[i] = 0 }
        IN  /\ encoded.out.exc = ""
            /\ ones \cup zeros = block
            /\ encoded.row.race_incident \notin encoded.seen => zeros = block
            /\ encoded.row.race_incident \in encoded.seen => Cardinality(ones) = 1
            /\ \A c \in encoded.seen :
                  Len(encoded.out.X) =
                      Len(preprocessor_transform(encoded.categories,
                                                 [encoded.row EXCEPT !.race_incident = c]).X)

\* A row with an incident outside the four, and a row with one of the four
\* that the training frame did not hold, have gone through a preprocessor
\* fitted on more than one incident.
C24_Witness ==
    /\ encoded.called
    /\ Len(encoded.categories) > 1
    /\ encoded.row.race_incident \notin encoded.seen
    /\ encoded.out.exc = ""
    /\ Len(encoded.out.X) = Len(encoded.categories) + 5

(***************************************************************************)
(* Properties of load_models.                                              *)
(***************************************************************************)
Complete(i) == disk[i].model_file # "missing" /\ disk[i].preprocessor_file # "missing"

\* C25: after load_models, each artifact in use is the one stored at the first
\* location, in list order, that holds both files; locations before it, with
\* one file or none, are passed over.
C25_FirstCompleteLocation ==
    \A i \in DOMAIN possible_paths :
        (Complete(possible_paths[i]) /\ \A j \in 1 .. i - 1 : ~Complete(possible_paths[j])) =>
            /\ model.set => model = Artifact(disk[possible_paths[i]].model_file)
            /\ preprocessor.set =>
                  preprocessor = Artifact(disk[possible_paths[i]].preprocessor_file)
            /\ proc \in {"serving", "subscribed"} => (model.set /\ preprocessor.set)

\* The working directory holds a model fitted on other columns than the one
\* in output/ and no preprocessor; both artifacts in use are those of output/.
C25_Witness ==
    /\ proc \in {"serving", "subscribed"}
    /\ disk[possible_paths[1]].preprocessor_file = "missing"
    /\ disk[possible_paths[1]].model_file \in {"five", "six"}
    /\ disk[possible_paths[2]].model_file \in {"five", "six"}
    /\ disk[possible_paths[1]].model_file # disk[possible_paths[2]].model_file
    /\ model = Artifact(disk[possible_paths[2]].model_file)
    /\ preprocessor = Artifact(disk[possible_paths[2]].preprocessor_file)

(***************************************************************************)
(* Properties of the subscriber loop.                                      *)
(***************************************************************************)
\* C26: whatever is delivered and however often, setF1PitStrategy is issued
\* at most once for a message _id, and only for an _id in
\* processed_message_ids.
C26_MutationOncePerId ==
    /\ watched.issued <= 1
    /\ watched.issued = 1 => watched.id \in sub.processed_message_ids

\* The mutation of a message went through, the message came again, and the
\* second delivery was skipped.
C26_Witness ==
    /\ watched.first.mutation = "sent"
    /\ watched.deliveries > 1
    /\ watched.issued = 1
    /\ sub.last.message.id = watched.id
    /\ sub.last.outcome = "skipped"

\* C27: an _id is in processed_message_ids from its first delivery on, also
\* when that message failed validation or raised; the body of the loop runs
\* at most once for an _id, and every later message with that _id, None
\* included, is skipped with nothing validated, scored or sent.
C27_MarkedBeforeValidation ==
    /\ watched.handled <= 1
    /\ watched.deliveries > 0 => watched.id \in sub.processed_message_ids
    /\ (sub.last.message.id = watched.id /\ watched.deliveries > 1) =>
          sub.last = Skipped(sub.last.message)
    /\ sub.last.outcome = "skipped" =>
          (sub.last.calls = {} /\ sub.last.decision = "" /\ sub.last.mutation = "none")

\* A message without _id failed, and a later message without _id, with other
\* values that validate_input accepts, was skipped.
C27_Witness ==
    /\ watched.id = "None"
    /\ watched.first.outcome \in {"invalid", "error"}
    /\ watched.deliveries > 1
    /\ sub.last.message.id = watched.id
    /\ sub.last.message.data # watched.first.message.data
    /\ Accepted(validate_input_main(sub.last.message.data))
    /\ sub.last.outcome = "skipped"

\* A step of the loop for a message whose _id is new: the loop goes on, and
\* the message is validated and processed as if nothing had come before.
NewMessageProcessed ==
    /\ proc = "subscribed" => proc' = "subscribed"
    /\ (sub' # sub /\ sub'.last.message.id \notin sub.processed_message_ids) =>
          /\ sub'.last.validation # NotRun
          /\ \E convex \in {"sent", "failed"} :
                sub'.last = ProcessMessage(sub'.last.message, model, preprocessor, convex)

\* C28: after a message that failed validation, raised, or whose mutation
\* failed, the loop is still running, and every message delivered later with
\* an _id not seen before is validated and processed.
C28_FailureDoesNotStopLoop == [][NewMessageProcessed]_vars

\* A message raised, and a message with another _id delivered after it was
\* scored and its decision sent.
C28_Witness ==
    /\ watched.first.outcome = "error"
    /\ sub.last.message.id # watched.id
    /\ sub.last.outcome = "predicted"
    /\ sub.last.mutation = "sent"

(***************************************************************************)
(* The oracle as a relation between scenarios.                             *)
(***************************************************************************)
\* The scenarios of the grid that differ from row in one field only: a tire
\* wear or a drop at least as high, or a track position at least as good.
Raised(row) ==
    { [row EXCEPT !.tire_wear_percentage = w] :
        w \in { x \in WearValues : x >= row.tire_wear_percentage } }
    \cup { [row EXCEPT !.performance_drop_seconds = d] :
             d \in { x \in DropValues : x >= row.performance_drop_seconds } }
    \cup { [row EXCEPT !.track_position = p] :
             p \in { x \in PositionValues : x <= row.track_position } }

\* C30: when a scenario is labelled PIT NOW, so is every scenario with the
\* same other fields and a higher tire wear, a higher performance drop, or a
\* better track position.
C30_OracleMonotone ==
    data.labelled =>
        \A i \in DOMAIN data.rows :
            data.decision[i] = "PIT NOW" =>
                \A other \in Raised(data.rows[i]) : Decision(other) = "PIT NOW"

\* A scenario that pits by the undercut rule alone, at wear 41 in eighth
\* place, has been labelled, and there are scenarios above it.
C30_Witness ==
    /\ data.labelled
    /\ \E i \in DOMAIN data.rows :
          /\ RulesHolding(data.rows[i]) = {4}
          /\ data.rows[i].tire_wear_percentage = 41
          /\ data.rows[i].track_position = 8
          /\ data.decision[i] = "PIT NOW"
          /\ Raised(data.rows[i]) # {data.rows[i]}

====
